---- MODULE Spec2Model ----
(***************************************************************************)
(* sentinel2py: the band stacker (downloader/stacker.py), the download     *)
(* client (downloader/fetch.py), the item selector (downloader/selector.py),*)
(* the manager that drives them (downloader/manager.py), the download      *)
(* function of the notebook checkpoint and the plotter (plot/plotter.py),  *)
(* over a file system of raster files.                                     *)
(*                                                                         *)
(* The program is single-threaded and synchronous, so every public method  *)
(* is one action that runs the whole method, up to its return or to the    *)
(* exception it ends with; a call that waits for the network (download_one,*)
(* download_list, download_band) is one action up to its first request and *)
(* one action per request and per body received.  Numbers (pixel sizes,    *)
(* transforms, the custom resolution) are Python's floats.                 *)
(***************************************************************************)
EXTENDS Integers, Sequences, FiniteSets, TLC

VARIABLES
    fs,     \* the file system: path -> file content
    dirs,   \* the directories that exist
    ret     \* the last finished call: its arguments, locals and outcome

vars == <<fs, dirs, ret>>

(***************************************************************************)
(* Bounds of the model.                                                    *)
(***************************************************************************)
MaxBands == 2

\* the largest retry count a BandFetcher is constructed with
MaxRetries == 3

\* the longest list of tiles given to download_multiple_tiles
MaxTiles == 2

\* the longest list of items given to a selection
MaxItems == 2

(***************************************************************************)
(* Natural numbers of any size, for the 53-bit significands of Python's    *)
(* floats: a number is the sequence of its digits in base 2^15, the least  *)
(* significant first, without leading zero digits (zero is <<>>).          *)
(***************************************************************************)
BigBase == 32768

BigBits == 15

RECURSIVE Pow2(_)
Pow2(k) == IF k = 0 THEN 1 ELSE 2 * Pow2(k - 1)

RECURSIVE IntBitLen(_)
IntBitLen(n) == IF n = 0 THEN 0 ELSE 1 + IntBitLen(n \div 2)

RECURSIVE BigNorm(_)
BigNorm(x) ==
    IF x = <<>> THEN <<>>
    ELSE IF x[Len(x)] = 0 THEN BigNorm(SubSeq(x, 1, Len(x) - 1))
    ELSE x

RECURSIVE BigOf(_)
BigOf(n) == IF n = 0 THEN <<>> ELSE <<n % BigBase>> \o BigOf(n \div BigBase)

\* the integer a number of at most 31 bits is
RECURSIVE BigInt(_)
BigInt(x) == IF x = <<>> THEN 0 ELSE x[1] + BigBase * BigInt(Tail(x))

Digit(x, k) == IF k <= Len(x) THEN x[k] ELSE 0

BigBitLen(x) ==
    IF x = <<>> THEN 0 ELSE BigBits * (Len(x) - 1) + IntBitLen(x[Len(x)])

\* the comparison of the digits k, k-1, ..., 1 of x and y: -1, 0 or 1
RECURSIVE BigCmpFrom(_, _, _)
BigCmpFrom(x, y, k) ==
    IF k = 0 THEN 0
    ELSE IF x[k] < y[k] THEN -1
    ELSE IF x[k] > y[k] THEN 1
    ELSE BigCmpFrom(x, y, k - 1)

BigCmp(x, y) ==
    IF Len(x) < Len(y) THEN -1
    ELSE IF Len(x) > Len(y) THEN 1
    ELSE BigCmpFrom(x, y, Len(x))

RECURSIVE BigAddFrom(_, _, _, _)
BigAddFrom(x, y, k, carry) ==
    IF k > Len(x) /\ k > Len(y) THEN (IF carry = 0 THEN <<>> ELSE <<carry>>)
    ELSE LET s == Digit(x, k) + Digit(y, k) + carry
         IN  <<s % BigBase>> \o BigAddFrom(x, y, k + 1, s \div BigBase)

BigAdd(x, y) == BigAddFrom(x, y, 1, 0)

\* x - y for x >= y
RECURSIVE BigSubFrom(_, _, _, _)
BigSubFrom(x, y, k, borrow) ==
    IF k > Len(x) THEN <<>>
    ELSE LET s == x[k] - Digit(y, k) - borrow
         IN  IF s < 0 THEN <<s + BigBase>> \o BigSubFrom(x, y, k + 1, 1)
             ELSE <<s>> \o BigSubFrom(x, y, k + 1, 0)

BigSub(x, y) == BigNorm(BigSubFrom(x, y, 1, 0))

\* x * n for a digit n
RECURSIVE BigMulDigitFrom(_, _, _, _)
BigMulDigitFrom(x, n, k, carry) ==
    IF k > Len(x) THEN (IF carry = 0 THEN <<>> ELSE <<carry>>)
    ELSE LET p == x[k] * n + carry
         IN  <<p % BigBase>> \o BigMulDigitFrom(x, n, k + 1, p \div BigBase)

BigMulDigit(x, n) == IF n = 0 THEN <<>> ELSE BigMulDigitFrom(x, n, 1, 0)

\* x * BigBase^n
BigShiftDigits(x, n) == IF x = <<>> THEN <<>> ELSE [k \in 1..n |-> 0] \o x

RECURSIVE BigMulFrom(_, _, _)
BigMulFrom(x, y, k) ==
    IF k > Len(y) THEN <<>>
    ELSE BigAdd(BigShiftDigits(BigMulDigit(x, y[k]), k - 1), BigMulFrom(x, y, k + 1))

\* x * 2^s
BigShl(x, s) ==
    BigShiftDigits(BigMulDigit(x, Pow2(s % BigBits)), s \div BigBits)

\* quotient and remainder of the digits k, ..., 1 of x, after the remainder r
\* of the digits above them, by a digit n
RECURSIVE BigDivDigitFrom(_, _, _, _)
BigDivDigitFrom(x, n, k, r) ==
    IF k = 0 THEN [q |-> <<>>, r |-> r]
    ELSE LET cur  == r * BigBase + x[k]
             rest == BigDivDigitFrom(x, n, k - 1, cur % n)
         IN  [q |-> Append(rest.q, cur \div n), r |-> rest.r]

BigDivDigit(x, n) ==
    LET d == BigDivDigitFrom(x, n, Len(x), 0)
    IN  [q |-> BigNorm(d.q), r |-> BigOf(d.r)]

\* floor(x / 2^s)
BigShr(x, s) ==
    IF s \div BigBits >= Len(x) THEN <<>>
    ELSE BigDivDigit(SubSeq(x, s \div BigBits + 1, Len(x)), Pow2(s % BigBits)).q

\* the largest digit q with q * y <= r, from an estimate that is not below it
RECURSIVE QuotientDigit(_, _, _)
QuotientDigit(r, y, q) ==
    IF BigCmp(BigMulDigit(y, q), r) > 0 THEN QuotientDigit(r, y, q - 1) ELSE q

\* long division of the digits k, ..., 1 of x, after the remainder r of the
\* digits above them, by y, whose leading digit is at least BigBase / 2: the
\* quotient digit is estimated from the two leading digits of the remainder
RECURSIVE BigDivFrom(_, _, _, _)
BigDivFrom(x, y, k, r) ==
    IF k = 0 THEN [q |-> <<>>, r |-> r]
    ELSE LET n    == Len(y)
             cur  == BigNorm(<<x[k]>> \o r)
             est  == (Digit(cur, n + 1) * BigBase + Digit(cur, n)) \div y[n]
             q    == QuotientDigit(cur, y, IF est < BigBase THEN est ELSE BigBase - 1)
             rest == BigDivFrom(x, y, k - 1, BigSub(cur, BigMulDigit(y, q)))
         IN  [q |-> Append(rest.q, q), r |-> rest.r]

\* floor(x / y) for y > 0, and whether the division leaves a remainder
BigDiv(x, y) ==
    IF Len(y) = 1
    THEN LET d == BigDivDigit(x, y[1]) IN [q |-> d.q, exact |-> d.r = <<>>]
    ELSE LET s == BigBits - IntBitLen(y[Len(y)])
             d == BigDivFrom(BigShl(x, s), BigShl(y, s), Len(BigShl(x, s)), <<>>)
         IN  [q |-> BigNorm(d.q), exact |-> d.r = <<>>]

(***************************************************************************)
(* Python's float: an IEEE 754 double.  A float is sign * man * 2^exp with  *)
(* man odd, or zero; every operation returns the float nearest to the      *)
(* exact result, the one with the even significand when two are as near.   *)
(* The floats of the model stay in the normal range of a double.           *)
(***************************************************************************)
MantBits == 53

FloatZero == [sign |-> 1, man |-> <<>>, exp |-> 0]

\* the number of zero bits a positive integer ends in
RECURSIVE TrailingZeros(_)
TrailingZeros(n) == IF n % 2 = 1 THEN 0 ELSE 1 + TrailingZeros(n \div 2)

\* sign * man * 2^exp with the zero bits man ends in moved to the exponent
RECURSIVE FloatOf(_, _, _)
FloatOf(sign, man, exp) ==
    IF man = <<>> THEN FloatZero
    ELSE IF man[1] = 0 THEN FloatOf(sign, Tail(man), exp + BigBits)
    ELSE IF man[1] % 2 = 1 THEN [sign |-> sign, man |-> man, exp |-> exp]
    ELSE LET t == TrailingZeros(man[1])
         IN  [sign |-> sign, man |-> BigDivDigit(man, Pow2(t)).q, exp |-> exp + t]

\* the float nearest to sign * man * 2^exp, or to a number just above it
\* when inexact (man then has more than MantBits + 1 bits)
FloatRound(sign, man, exp, inexact) ==
    LET drop == BigBitLen(man) - MantBits
        kept == BigShr(man, drop)
        low  == BigSub(man, BigShl(kept, drop))
        half == BigCmp(low, BigShl(<<1>>, drop - 1))
        up   == half > 0 \/ (half = 0 /\ (inexact \/ kept[1] % 2 = 1))
    IN  IF drop <= 0 THEN FloatOf(sign, man, exp)
        ELSE FloatOf(sign, IF up THEN BigAdd(kept, <<1>>) ELSE kept, exp + drop)

\* float(n) of an integer
Float(n) == FloatOf(IF n < 0 THEN -1 ELSE 1, BigOf(IF n < 0 THEN -n ELSE n), 0)

FloatNeg(x) == IF x.man = <<>> THEN x ELSE [x EXCEPT !.sign = -x.sign]

FloatAbs(x) == [x EXCEPT !.sign = 1]

\* x * y
FloatMul(x, y) ==
    IF x.man = <<>> \/ y.man = <<>> THEN FloatZero
    ELSE FloatRound(x.sign * y.sign, BigMulFrom(x.man, y.man, 1), x.exp + y.exp, FALSE)

\* x / y for y # 0: the quotient of the significands to MantBits + 2 bits or
\* more, and whether it is exact
FloatDiv(x, y) ==
    LET k0 == MantBits + 2 + BigBitLen(y.man) - BigBitLen(x.man)
        k  == IF k0 < 0 THEN 0 ELSE k0
        d  == BigDiv(BigShl(x.man, k), y.man)
    IN  IF x.man = <<>> THEN FloatZero
        ELSE FloatRound(x.sign * y.sign, d.q, x.exp - y.exp - k, ~d.exact)

\* the comparison of |x| and |y|: -1, 0 or 1
FloatCmpAbs(x, y) ==
    IF x.man = <<>> \/ y.man = <<>>
    THEN (IF x.man = y.man THEN 0 ELSE IF x.man = <<>> THEN -1 ELSE 1)
    ELSE LET bx == BigBitLen(x.man) + x.exp
             by == BigBitLen(y.man) + y.exp
             e  == IF x.exp < y.exp THEN x.exp ELSE y.exp
         IN  IF bx < by THEN -1
             ELSE IF bx > by THEN 1
             ELSE BigCmp(BigShl(x.man, x.exp - e), BigShl(y.man, y.exp - e))

\* x < y
FloatLess(x, y) ==
    IF x.sign # y.sign THEN x.sign < y.sign /\ (x.man # <<>> \/ y.man # <<>>)
    ELSE IF x.sign = 1 THEN FloatCmpAbs(x, y) < 0
    ELSE FloatCmpAbs(x, y) > 0

\* the longest distance between the exponents of two floats that are added
\* digit by digit: a float further below the other is less than a quarter of
\* its last bit and is added as a number just above zero
MaxAlign == 120

\* big + small for |big| >= |small| > 0
FloatAddTo(big, small) ==
    LET far == big.exp - small.exp > MaxAlign
        e   == IF far THEN big.exp - MaxAlign
               ELSE IF big.exp < small.exp THEN big.exp ELSE small.exp
        mb  == BigShl(big.man, big.exp - e)
        ms  == IF far THEN <<>> ELSE BigShl(small.man, small.exp - e)
    IN  IF big.sign = small.sign
        THEN FloatRound(big.sign, BigAdd(mb, ms), e, far)
        ELSE IF far THEN FloatRound(big.sign, BigSub(mb, <<1>>), e, TRUE)
        ELSE FloatRound(big.sign, BigSub(mb, ms), e, FALSE)

\* x + y
FloatAdd(x, y) ==
    IF x.man = <<>> THEN y
    ELSE IF y.man = <<>> THEN x
    ELSE IF FloatCmpAbs(x, y) >= 0 THEN FloatAddTo(x, y)
    ELSE FloatAddTo(y, x)

\* x - y
FloatSub(x, y) == FloatAdd(x, FloatNeg(y))

\* int(x): the integer part, toward zero
FloatInt(x) ==
    x.sign * BigInt(IF x.exp >= 0 THEN BigShl(x.man, x.exp) ELSE BigShr(x.man, -x.exp))

\* the float a decimal literal n/d is read as
Decimal(n, d) == FloatDiv(Float(n), Float(d))

\* round(x): the nearest integer, the even one when two are as near
FloatNearest(x) ==
    LET whole == FloatInt(FloatAbs(x))
        rest  == FloatSub(FloatAbs(x), Float(whole))
        half  == FloatCmpAbs(rest, FloatDiv(Float(1), Float(2)))
    IN  x.sign * (IF half > 0 \/ (half = 0 /\ whole % 2 = 1) THEN whole + 1
                  ELSE whole)

\* the denominator of the tolerance 1e-6 of stack_to_resolution
TolDen == 1000000

\* a comparison without the tolerance
WithinTolExact(x, y) == x = y

\* abs(x - y) < 1e-6, the literal read as a float
WithinTol(x, y) == FloatLess(FloatAbs(FloatSub(x, y)), Decimal(1, TolDen))

(***************************************************************************)
(* Affine transforms (the affine package): the matrix                      *)
(*     | a b c |                                                           *)
(*     | d e f |                                                           *)
(* a raster's transform has a = pixel width, e = -pixel height, (c, f) the *)
(* origin.                                                                 *)
(***************************************************************************)
AffineMul(m, n) ==
    [a |-> FloatAdd(FloatMul(m.a, n.a), FloatMul(m.b, n.d)),
     b |-> FloatAdd(FloatMul(m.a, n.b), FloatMul(m.b, n.e)),
     c |-> FloatAdd(FloatAdd(FloatMul(m.a, n.c), FloatMul(m.b, n.f)), m.c),
     d |-> FloatAdd(FloatMul(m.d, n.a), FloatMul(m.e, n.d)),
     e |-> FloatAdd(FloatMul(m.d, n.b), FloatMul(m.e, n.e)),
     f |-> FloatAdd(FloatAdd(FloatMul(m.d, n.c), FloatMul(m.e, n.f)), m.f)]

NorthUp(xres, yres, x0, y0) ==
    [a |-> Float(xres), b |-> Float(0), c |-> Float(x0),
     d |-> Float(0), e |-> Float(-yres), f |-> Float(y0)]

\* rasterio's dataset.res of an unrotated transform: (a, -e)
Res(meta) == <<meta.transform.a, FloatNeg(meta.transform.e)>>

(***************************************************************************)
(* The file system.  A path is the sequence of its components.             *)
(***************************************************************************)
Join(d, name) == Append(d, name)

Exists(fsys, p) == fsys[p].kind # "absent"

\* whether p names a file
IsFile(fsys, p) == p \in DOMAIN fsys /\ Exists(fsys, p)

\* os.path.exists(p): a file or a directory
PathExists(fsys, ds, p) == IsFile(fsys, p) \/ p \in ds

\* os.makedirs(d, exist_ok=True): d and every ancestor of d, made from the
\* outermost on up to the first that is a file; the empty path (the dirname
\* of a bare file name) is FileNotFoundError, d a file FileExistsError, an
\* ancestor a file NotADirectoryError
Makedirs(fsys, ds, d) ==
    LET files == {k \in 1..Len(d) : IsFile(fsys, SubSeq(d, 1, k))}
        stop  == IF files = {} THEN Len(d) + 1
                 ELSE CHOOSE k \in files : \A j \in files : k <= j
        made  == ds \cup {SubSeq(d, 1, k) : k \in 1..(stop - 1)}
    IN  IF d = <<>> THEN [dirs |-> ds, exc |-> "FileNotFoundError"]
        ELSE IF stop > Len(d) THEN [dirs |-> made, exc |-> "none"]
        ELSE IF stop = Len(d) THEN [dirs |-> made, exc |-> "FileExistsError"]
        ELSE [dirs |-> made, exc |-> "NotADirectoryError"]

\* rasterio.open(p) succeeds on a raster file only
Readable(fsys, p) == fsys[p].kind = "raster"

Meta(dtype, nodata, h, w, crs, transform) ==
    [driver |-> "GTiff", dtype |-> dtype, nodata |-> nodata, width |-> w,
     height |-> h, count |-> 1, crs |-> crs, transform |-> transform]

\* a band of a raster file: the samples it holds
Array(data, h, w, resampling) ==
    [data |-> data, shape |-> <<h, w>>, resampling |-> resampling]

\* a band of a file opened for writing that nothing was written to
Unwritten == Array("zeros", 0, 0, "none")

\* a single-band raster file as the download step leaves it
BandFile(meta, data) ==
    [kind |-> "raster", meta |-> meta,
     bands |-> [k \in 1..1 |-> Array(data, meta.height, meta.width, "none")]]

\* os.path.join(self.out_dir, tile_id), the out_dir being data
TileDir(tile) == Join(<<"data">>, tile)

\* the band files the stacker is given: three that are on disk when the
\* program starts and one, PE, that is not downloaded yet
PA == Join(TileDir("T0"), "B04.tif")
PB == Join(TileDir("T0"), "B08.tif")
PC == Join(TileDir("T2"), "B09.tif")
PE == Join(TileDir("T1"), "B08.tif")

OnDisk == {PA, PB, PC}

\* where a stack is written: the stacked file of preset NIR for the tile T1
\* acquired on 2024-01-01
OutPaths == {Join(TileDir("T1"), "B08_20240101_10m_stack.tif")}

\* an output file named without a directory, in the working directory
BarePaths == {<<"out.tif">>}

(***************************************************************************)
(* BandStacker                                                             *)
(***************************************************************************)
\* a native reader that interpolates
ReadRawInterpolated(f) == [f.bands[1] EXCEPT !.resampling = "bilinear"]

\* src.read(1)
ReadRaw(f) == f.bands[1]

\* the reader callbacks of the three modes: src.read(1), and
\* src.read(out_shape=(1, h, w), resampling=Resampling.bilinear)[0], which is
\* a plain read at the band's own shape
ReadFn(mode, f, h, w) ==
    IF mode = "native" THEN ReadRaw(f)
    ELSE Array(f.bands[1].data, h, w,
               IF <<h, w>> = <<f.meta.height, f.meta.width>> THEN "none"
               ELSE "bilinear")

\* meta.update(count=len(band_paths))
UpdateCount(meta, band_paths) == [meta EXCEPT !.count = Len(band_paths)]

\* a write loop that fills the bands from the last path to the first
RECURSIVE WriteBandsReversed(_, _, _, _, _, _)
WriteBandsReversed(fsys, f, band_paths, mode, k, shape) ==
    IF k > Len(band_paths) THEN [file |-> f, exc |-> "none"]
    ELSE IF ~Readable(fsys, band_paths[Len(band_paths) + 1 - k])
         THEN [file |-> f, exc |-> "RasterioIOError"]
         ELSE WriteBandsReversed(fsys,
                         [f EXCEPT !.bands[k] =
                             ReadFn(mode, fsys[band_paths[Len(band_paths) + 1 - k]],
                                    shape[1], shape[2])],
                         band_paths, mode, k + 1, shape)

\* the loop of _stack_write from band k on: file f is open for writing
RECURSIVE WriteBands(_, _, _, _, _, _)
WriteBands(fsys, f, band_paths, mode, k, shape) ==
    IF k > Len(band_paths) THEN [file |-> f, exc |-> "none"]
    ELSE IF ~Readable(fsys, band_paths[k])
         THEN [file |-> f, exc |-> "RasterioIOError"]
         ELSE WriteBands(fsys,
                         [f EXCEPT !.bands[k] =
                             ReadFn(mode, fsys[band_paths[k]], shape[1], shape[2])],
                         band_paths, mode, k + 1, shape)

\* _stack_write: the file system, directories and exception it ends with;
\* os.path.dirname(out_file) is out_file without its last component
StackWrite(fsys, ds, out_file, meta, band_paths, mode) ==
    LET made  == Makedirs(fsys, ds, SubSeq(out_file, 1, Len(out_file) - 1))
        empty == [kind |-> "raster", meta |-> meta,
                  bands |-> [k \in 1..meta.count |-> Unwritten]]
        fs1   == [fsys EXCEPT ![out_file] = empty]
        w     == WriteBands(fs1, empty, band_paths, mode, 1,
                            <<meta.height, meta.width>>)
    IN  IF made.exc # "none"
        THEN [fs |-> fsys, dirs |-> made.dirs, exc |-> made.exc]
        ELSE IF meta.height < 1 \/ meta.width < 1
        THEN [fs |-> fsys, dirs |-> made.dirs, exc |-> "RasterioIOError"]
        ELSE [fs |-> [fsys EXCEPT ![out_file] = w.file], dirs |-> made.dirs,
              exc |-> w.exc]

\* the index of the first path that rasterio.open fails on, 0 when none
RECURSIVE FirstUnreadable(_, _, _)
FirstUnreadable(fsys, band_paths, k) ==
    IF k > Len(band_paths) THEN 0
    ELSE IF ~Readable(fsys, band_paths[k]) THEN k
    ELSE FirstUnreadable(fsys, band_paths, k + 1)

\* sorted(band_res_info, key=lambda x: x[1]): a stable sort by pixel size
RECURSIVE InsertByRes(_, _)
InsertByRes(s, x) ==
    IF s = <<>> THEN <<x>>
    ELSE IF FloatLess(x[2], s[Len(s)][2])
         THEN Append(InsertByRes(SubSeq(s, 1, Len(s) - 1), x), s[Len(s)])
         ELSE Append(s, x)

RECURSIVE SortedByRes(_)
SortedByRes(info) ==
    IF info = <<>> THEN <<>>
    ELSE InsertByRes(SortedByRes(SubSeq(info, 1, Len(info) - 1)), info[Len(info)])

\* band_res_info of stack_to_highest_resolution
BandResInfo(fsys, band_paths) ==
    [k \in 1..Len(band_paths) |-> <<band_paths[k], Res(fsys[band_paths[k]].meta)[1]>>]

\* a base band that is the first band, whatever its pixel size
HighestBaseUnsorted(fsys, band_paths) == band_paths[1]

\* a base band that is the last of the bands of minimum pixel size
HighestBaseLastOfTies(fsys, band_paths) ==
    LET info == BandResInfo(fsys, band_paths)
        n    == Len(info)
    IN  SortedByRes([k \in 1..n |-> info[n + 1 - k]])[1][1]

\* base_band of stack_to_highest_resolution
HighestBase(fsys, band_paths) == SortedByRes(BandResInfo(fsys, band_paths))[1][1]

\* the search loop of stack_to_resolution from band k on: the index of the
\* first band within 1e-6 of the resolution (0 when none), or the index of the
\* band whose open failed before one was found
RECURSIVE FindAtResolution(_, _, _, _)
FindAtResolution(fsys, band_paths, resolution, k) ==
    IF k > Len(band_paths) THEN [found |-> 0, failed |-> 0]
    ELSE IF ~Readable(fsys, band_paths[k]) THEN [found |-> 0, failed |-> k]
    ELSE IF WithinTol(Res(fsys[band_paths[k]].meta)[1], resolution)
         THEN [found |-> k, failed |-> 0]
         ELSE FindAtResolution(fsys, band_paths, resolution, k + 1)

\* a custom grid size that rounds
CustomSizeRounded(n, res_scale) == FloatNearest(FloatMul(Float(n), res_scale))

\* height and width of the custom grid: int(n * res_scale)
CustomSize(n, res_scale) == FloatInt(FloatMul(Float(n), res_scale))

\* meta of stack_to_resolution: the transform is base.transform *
\* Affine.scale(base.res[0] / resolution, base.res[1] / resolution)
CustomMeta(base_meta, band_paths, resolution) ==
    LET res_scale == FloatDiv(Res(base_meta)[1], resolution)
    IN  [UpdateCount(base_meta, band_paths) EXCEPT
            !.height    = CustomSize(base_meta.height, res_scale),
            !.width     = CustomSize(base_meta.width, res_scale),
            !.transform =
                AffineMul(base_meta.transform,
                          [a |-> res_scale, b |-> Float(0), c |-> Float(0),
                           d |-> Float(0),
                           e |-> FloatDiv(Res(base_meta)[2], resolution),
                           f |-> Float(0)])]

NoRes == <<0, 0>>

NoMeta == [count |-> 0]

\* None, and the value of a call that raised
None == <<>>

\* a stacker call that ends before _stack_write is entered
StackRaises(fsys, ds, exc) ==
    [fs |-> fsys, dirs |-> ds, exc |-> exc, base |-> None, meta |-> NoMeta]

\* a stacker call that enters _stack_write
StackWrites(fsys, ds, out_file, meta, band_paths, mode, base) ==
    LET w == StackWrite(fsys, ds, out_file, meta, band_paths, mode)
    IN  [fs |-> w.fs, dirs |-> w.dirs, exc |-> w.exc, base |-> base, meta |-> meta]

\* BandStacker.stack_same_resolution(band_paths, out_file)
StackSameResolution(fsys, ds, band_paths, out_file) ==
    IF band_paths = <<>> THEN StackRaises(fsys, ds, "IndexError")
    ELSE IF ~Readable(fsys, band_paths[1]) THEN StackRaises(fsys, ds, "RasterioIOError")
    ELSE StackWrites(fsys, ds, out_file,
                     UpdateCount(fsys[band_paths[1]].meta, band_paths),
                     band_paths, "native", band_paths[1])

\* BandStacker.stack_to_highest_resolution(band_paths, out_file)
StackToHighestResolution(fsys, ds, band_paths, out_file) ==
    IF FirstUnreadable(fsys, band_paths, 1) # 0
    THEN StackRaises(fsys, ds, "RasterioIOError")
    ELSE IF band_paths = <<>> THEN StackRaises(fsys, ds, "IndexError")
    ELSE LET base_band == HighestBase(fsys, band_paths)
         IN  StackWrites(fsys, ds, out_file,
                         UpdateCount(fsys[base_band].meta, band_paths),
                         band_paths, "highest", base_band)

\* BandStacker.stack_to_resolution(band_paths, out_file, resolution)
StackToResolution(fsys, ds, band_paths, out_file, resolution) ==
    LET found == FindAtResolution(fsys, band_paths, resolution, 1)
    IN  IF found.failed # 0 THEN StackRaises(fsys, ds, "RasterioIOError")
        ELSE IF found.found = 0 /\ band_paths = <<>>
        THEN StackRaises(fsys, ds, "IndexError")
        ELSE IF resolution = FloatZero THEN StackRaises(fsys, ds, "ZeroDivisionError")
        ELSE LET base_path == IF found.found # 0 THEN band_paths[found.found]
                              ELSE band_paths[1]
             IN  StackWrites(fsys, ds, out_file,
                             CustomMeta(fsys[base_path].meta, band_paths, resolution),
                             band_paths, "custom", base_path)

(***************************************************************************)
(* The catalog: STAC items and their assets.                               *)
(***************************************************************************)
\* the datetime property "y-m-dT10:05:11Z", by its parts
Datetime(y, m, d) == <<y, m, d, "T10:05:11Z">>

Item(id, tile, datetime, assets) ==
    [id |-> id,
     properties |-> ("sentinel:tile_id" :> <<tile>> @@ "datetime" :> datetime),
     assets |-> assets]

\* two acquisitions of tile T1
I1 == Item("S2A_T1_20240101", "T1", Datetime("2024", "01", "01"), {"B04", "B08"})
I2 == Item("S2B_T1_20240111", "T1", Datetime("2024", "01", "11"), {"B04", "B08"})

Items == {I1, I2}

\* dict.get(key, default)
Get(d, key, default) == IF key \in DOMAIN d THEN d[key] ELSE default

\* config.BAND_PRESETS
BAND_PRESETS ==
    [p \in {"RGB", "VISUAL", "NIR", "NDVI", "NDWI", "SWIR", "RE_ALL", "ALL_10M",
            "ALL_20M", "ALL_60M", "ALL_BANDS"} |->
        CASE p = "RGB"       -> <<"B04", "B03", "B02">>
          [] p = "VISUAL"    -> <<"visual">>
          [] p = "NIR"       -> <<"B08">>
          [] p = "NDVI"      -> <<"B08", "B04">>
          [] p = "NDWI"      -> <<"B03", "B08">>
          [] p = "SWIR"      -> <<"B11", "B12">>
          [] p = "RE_ALL"    -> <<"B05", "B06", "B07", "B8A">>
          [] p = "ALL_10M"   -> <<"B02", "B03", "B04", "B08">>
          [] p = "ALL_20M"   -> <<"B05", "B06", "B07", "B8A", "B11", "B12">>
          [] p = "ALL_60M"   -> <<"B01", "B09", "B10">>
          [] p = "ALL_BANDS" -> <<"B01", "B02", "B03", "B04", "B05", "B06", "B07",
                                  "B08", "B8A", "B09", "B10", "B11", "B12", "SCL">>]

\* config.BAND_RESOLUTIONS
BAND_RESOLUTIONS ==
    [b \in {"B01", "B02", "B03", "B04", "B05", "B06", "B07", "B08", "B8A", "B09",
            "B10", "B11", "B12", "SCL"} |->
        IF b \in {"B02", "B03", "B04", "B08"} THEN 10
        ELSE IF b \in {"B05", "B06", "B07", "B8A", "B11", "B12"} THEN 20
        ELSE 60]

\* the raster an asset of tile T1 downloads to: a footprint of 120 m by 180 m
\* at the band's resolution, 12 x 18 pixels for a 10 m band, 6 x 9 for a 20 m
\* band and 2 x 3 for a 60 m band
AssetFile(item, band) ==
    LET res == Get(BAND_RESOLUTIONS, band, 10)
    IN  BandFile(Meta("uint16", "0", 120 \div res, 180 \div res, "EPSG:32633",
                      NorthUp(res, res, 300, 400)),
                 item.id \o ":" \o band)

(***************************************************************************)
(* BandFetcher                                                             *)
(***************************************************************************)
\* BandFetcher.__init__: the default retries and timeout
DefaultRetries == 3

DefaultTimeout == 20

\* BandFetcher(retries): the object __init__ leaves
BandFetcher(retries) == [retries |-> retries, timeout |-> DefaultTimeout]

\* the manager's fetcher: BandFetcher()
Fetcher == BandFetcher(DefaultRetries)

\* the parameters of download_one after self: item, band, dest_dir
DownloadOneParams == 3

\* whether a call of download_one with these positional arguments binds
Binds(args) == Len(args) = DownloadOneParams

\* open(local_path, "wb"): the file is there, and incomplete, from here until
\* the last chunk of the body is written
OpenFile(fsys, id, band, local_path) ==
    [fsys EXCEPT ![local_path] = [kind |-> "partial", data |-> id \o ":" \o band]]

\* attempt k of the retry loop of download_one; what is what the network does
\* to the request: "ok", "refused" (RequestException before the file is
\* opened) or "broken" (RequestException while the body is streamed).  The
\* attempt ends the call (done) unless it failed and another one is left,
\* before which the call sleeps.
Attempt(fsys, retries, item, band, local_path, what, k) ==
    IF what = "ok"
    THEN [fs |-> [fsys EXCEPT ![local_path] = AssetFile(item, band)],
          exc |-> "none", value |-> local_path, done |-> TRUE]
    ELSE [fs |-> IF what = "broken" THEN OpenFile(fsys, item.id, band, local_path)
                 ELSE fsys,
          exc |-> IF k < retries THEN "none" ELSE "RuntimeError",
          value |-> None, done |-> ~(k < retries)]

RECURSIVE Attempts(_, _, _, _, _, _, _)
\* the retry loop of download_one from attempt k on; net[k] is what the network
\* does to request k.  A loop that makes no attempt falls through, and the
\* call returns None.
Attempts(fsys, retries, item, band, local_path, net, k) ==
    IF k > retries
    THEN [fs |-> fsys, exc |-> "none", value |-> None, requests |-> k - 1]
    ELSE LET a == Attempt(fsys, retries, item, band, local_path, net[k], k)
         IN  IF a.done
             THEN [fs |-> a.fs, exc |-> a.exc, value |-> a.value, requests |-> k]
             ELSE Attempts(a.fs, retries, item, band, local_path, net, k + 1)

\* the outcome of a fetcher call
FetchEnds(fsys, ds, exc, value, requests, skipped) ==
    [fs |-> fsys, dirs |-> ds, exc |-> exc, value |-> value,
     requests |-> requests, skipped |-> skipped]

\* download_one up to its retry loop: the outcome when it ends before the
\* loop, and exc "loop" when it enters the loop
EnterDownloadOne(fsys, ds, item, band, dest_dir) ==
    LET made       == Makedirs(fsys, ds, dest_dir)
        local_path == Join(dest_dir, band \o ".tif")
    IN  IF made.exc # "none"
        THEN FetchEnds(fsys, made.dirs, made.exc, None, 0, FALSE)
        ELSE IF band \notin item.assets
        THEN FetchEnds(fsys, made.dirs, "ValueError", None, 0, FALSE)
        ELSE IF PathExists(fsys, made.dirs, local_path)
        THEN FetchEnds(fsys, made.dirs, "none", local_path, 0, TRUE)
        ELSE FetchEnds(fsys, made.dirs, "loop", None, 0, FALSE)

\* BandFetcher.download_one(item, band, dest_dir)
DownloadOne(self, fsys, ds, item, band, dest_dir, net) ==
    LET e == EnterDownloadOne(fsys, ds, item, band, dest_dir)
        a == Attempts(e.fs, self.retries, item, band,
                      Join(dest_dir, band \o ".tif"), net, 1)
    IN  IF e.exc # "loop" THEN e
        ELSE FetchEnds(a.fs, e.dirs, a.exc, a.value, a.requests, FALSE)

\* the record of a download_one call: net is what the network did to the
\* attempts that ended, streaming whether the call is writing the body of a
\* further request into the local file, requests the requests made
FetchRet(item, band, retries, dest_dir, extra, net, status, streaming, o) ==
    [op |-> "download_one", item |-> item.id, band |-> band, retries |-> retries,
     net |-> net, dest_dir |-> dest_dir, extra |-> extra, status |-> status,
     streaming |-> streaming, value |-> o.value, exc |-> o.exc,
     requests |-> Len(net) + (IF streaming THEN 1 ELSE 0), skipped |-> o.skipped]

\* the download_one call r after its attempt in progress ended as a, the
\* network having done what to it
AttemptEnds(r, a, what) ==
    [r EXCEPT !.net = Append(r.net, what),
              !.requests = Len(r.net) + 1,
              !.streaming = FALSE,
              !.status = IF ~a.done THEN "running"
                         ELSE IF a.exc = "none" THEN "returned"
                         ELSE "raised",
              !.value = a.value,
              !.exc = a.exc]

\* the record of a download_list call: paths is downloaded_paths so far, one
\* the download_one call in progress
ListRet(item, bands, retries, dest_dir, status, exc, paths, one) ==
    [op |-> "download_list", item |-> item.id, bands |-> bands,
     retries |-> retries, dest_dir |-> dest_dir, status |-> status, exc |-> exc,
     value |-> IF status = "returned" THEN paths ELSE None,
     paths |-> paths, one |-> one]

\* the loop of download_list (fetch.py:126-129) from the band after those of
\* paths on, as far as the next download_one call that enters its retry loop
\* with an attempt to make
RECURSIVE ListFrom(_, _, _, _, _, _, _)
ListFrom(fsys, ds, item, bands, retries, dest_dir, paths) ==
    LET k == Len(paths) + 1
        e == EnterDownloadOne(fsys, ds, item, bands[k], dest_dir)
    IN  IF k > Len(bands)
        THEN [fs |-> fsys, dirs |-> ds,
              ret |-> ListRet(item, bands, retries, dest_dir, "returned", "none",
                              paths, [op |-> "none"])]
        ELSE IF e.exc = "loop" /\ retries >= 1
        THEN [fs |-> fsys, dirs |-> e.dirs,
              ret |-> ListRet(item, bands, retries, dest_dir, "running", "none", paths,
                              FetchRet(item, bands[k], retries, dest_dir, <<>>, <<>>,
                                       "running", FALSE,
                                       [value |-> None, exc |-> "none",
                                        skipped |-> FALSE]))]
        ELSE IF e.exc \in {"loop", "none"}
        THEN ListFrom(fsys, e.dirs, item, bands, retries, dest_dir,
                      Append(paths, [band |-> bands[k], path |-> e.value]))
        ELSE [fs |-> fsys, dirs |-> e.dirs,
              ret |-> ListRet(item, bands, retries, dest_dir, "raised", e.exc, paths,
                              [op |-> "none"])]

\* download_list r after a step of its download_one call left that call as one
ListAfter(fsys, ds, r, item, one) ==
    IF one.status = "running"
    THEN [fs |-> fsys, dirs |-> ds, ret |-> [r EXCEPT !.one = one]]
    ELSE IF one.status = "raised"
    THEN [fs |-> fsys, dirs |-> ds,
          ret |-> ListRet(item, r.bands, r.retries, r.dest_dir, "raised", one.exc,
                          r.paths, one)]
    ELSE ListFrom(fsys, ds, item, r.bands, r.retries, r.dest_dir,
                  Append(r.paths, [band |-> one.band, path |-> one.value]))

(***************************************************************************)
(* download_band of downloader-checkpoint.py                               *)
(***************************************************************************)
\* out_path
BandOutPath(tile_id, band, out_dir) == Join(out_dir, tile_id \o "_" \o band \o ".jp2")

\* the record of a download_band call
BandRet(tile_id, band, out_dir, status, streaming, exc) ==
    [op |-> "download_band", tile_id |-> tile_id, band |-> band,
     out_dir |-> out_dir, status |-> status, streaming |-> streaming, exc |-> exc,
     value |-> IF status = "returned" THEN BandOutPath(tile_id, band, out_dir)
               ELSE None]

(***************************************************************************)
(* Sentinel2Manager                                                        *)
(***************************************************************************)
\* target_res: None, the string "highest" or a number
TargetNone == [kind |-> "None", str |-> "None", num |-> 0]

TargetHighest == [kind |-> "str", str |-> "highest", num |-> 0]

TargetNumber(n) == [kind |-> "int", str |-> ToString(n), num |-> n]

IsNumber(target_res) == target_res.kind \in {"int", "float"}

\* item.properties.get("sentinel:tile_id", item.id)
TileId(item) == Get(item.properties, "sentinel:tile_id", <<item.id>>)[1]

\* str(item.properties.get("datetime", "unknown")).split("T")[0].replace("-", "")
DateStr(item) ==
    LET dt == Get(item.properties, "datetime", <<"unknown">>)
    IN  IF Len(dt) = 1 THEN dt[1] ELSE dt[1] \o dt[2] \o dt[3]

\* "_".join(bands)
RECURSIVE BandToken(_)
BandToken(bands) ==
    IF Len(bands) = 0 THEN ""
    ELSE IF Len(bands) = 1 THEN bands[1]
    ELSE bands[1] \o "_" \o BandToken(Tail(bands))

\* min([downloaded_paths[b]["resolution"] for b in bands])
MinResolution(bands) ==
    LET rs == {Get(BAND_RESOLUTIONS, bands[k], 10) : k \in 1..Len(bands)}
    IN  CHOOSE r \in rs : \A q \in rs : r <= q

\* stacked_file
StackedFile(item, bands, target_res) ==
    LET res_label == IF target_res = TargetHighest THEN ToString(MinResolution(bands))
                     ELSE IF IsNumber(target_res) THEN target_res.str
                     ELSE ToString(MinResolution(bands))
    IN  Join(TileDir(TileId(item)),
             BandToken(bands) \o "_" \o DateStr(item) \o "_"
                 \o res_label \o "m_stack.tif")

\* a download loop whose call passes the three arguments download_one takes;
\* a request it makes is answered
RECURSIVE FetchLoopBinds(_, _, _, _, _, _, _, _, _)
FetchLoopBinds(fsys, ds, item, bands, tile_dir, overwrite, net, k, requests) ==
    IF k > Len(bands)
    THEN [fs |-> fsys, dirs |-> ds, exc |-> "none", requests |-> requests]
    ELSE LET d == DownloadOne(Fetcher, fsys, ds, item, bands[k], tile_dir,
                              [i \in 1..Fetcher.retries |-> "ok"])
         IN  IF d.exc # "none"
             THEN [fs |-> d.fs, dirs |-> d.dirs, exc |-> d.exc,
                   requests |-> requests + d.requests]
             ELSE FetchLoopBinds(d.fs, d.dirs, item, bands, tile_dir, overwrite,
                                 net, k + 1, requests + d.requests)

\* the download loop of download_bands from band k on: net[k] is what the
\* network does to the requests for band k
RECURSIVE FetchLoop(_, _, _, _, _, _, _, _, _)
FetchLoop(fsys, ds, item, bands, tile_dir, overwrite, net, k, requests) ==
    IF k > Len(bands)
    THEN [fs |-> fsys, dirs |-> ds, exc |-> "none", requests |-> requests]
    ELSE LET args == <<item, bands[k], tile_dir, overwrite, TRUE>>
             d    == IF ~Binds(args)
                     THEN FetchEnds(fsys, ds, "TypeError", None, 0, FALSE)
                     ELSE DownloadOne(Fetcher, fsys, ds, args[1], args[2], args[3],
                                      net[k])
         IN  IF d.exc # "none"
             THEN [fs |-> d.fs, dirs |-> d.dirs, exc |-> d.exc,
                   requests |-> requests + d.requests]
             ELSE FetchLoop(d.fs, d.dirs, item, bands, tile_dir, overwrite, net,
                            k + 1, requests + d.requests)

\* stack_func(band_paths, stacked_file)
StackFunc(fsys, ds, target_res, band_paths, stacked_file) ==
    IF target_res = TargetHighest
    THEN StackToHighestResolution(fsys, ds, band_paths, stacked_file)
    ELSE IF IsNumber(target_res)
    THEN StackToResolution(fsys, ds, band_paths, stacked_file, Float(target_res.num))
    ELSE StackSameResolution(fsys, ds, band_paths, stacked_file)

\* the outcome of a manager call
ManagerEnds(fsys, ds, exc, downloaded, stacked, requests, stacker_called) ==
    [fs |-> fsys, dirs |-> ds, exc |-> exc, downloaded |-> downloaded,
     stacked |-> stacked, requests |-> requests, stacker_called |-> stacker_called]

\* a preset looked up without the membership test: the lookup raises KeyError
PresetLookup(preset) == IF preset \in DOMAIN BAND_PRESETS THEN "none" ELSE "KeyError"

\* if preset not in BAND_PRESETS: raise ValueError
PresetCheck(preset) == IF preset \in DOMAIN BAND_PRESETS THEN "none" ELSE "ValueError"

\* download_bands after stack_func ended with outcome st
AfterStack(st, downloaded, stacked_file, requests) ==
    ManagerEnds(st.fs, st.dirs, st.exc,
                IF st.exc = "none" THEN downloaded ELSE None,
                IF st.exc = "none" THEN stacked_file ELSE None,
                requests, TRUE)

\* download_bands after its download loop ended with outcome dl
AfterDownloads(dl, item, bands, tile_dir, stack, overwrite, target_res) ==
    LET downloaded   == [k \in 1..Len(bands) |->
                            [band |-> bands[k],
                             path |-> Join(tile_dir, bands[k] \o ".tif"),
                             resolution |-> Get(BAND_RESOLUTIONS, bands[k], 10)]]
        stacked_file == StackedFile(item, bands, target_res)
        band_paths   == [k \in 1..Len(bands) |-> Join(tile_dir, bands[k] \o ".tif")]
    IN  IF dl.exc # "none"
        THEN ManagerEnds(dl.fs, dl.dirs, dl.exc, None, None, dl.requests, FALSE)
        ELSE IF ~stack
        THEN ManagerEnds(dl.fs, dl.dirs, "none", downloaded, None, dl.requests, FALSE)
        ELSE IF PathExists(dl.fs, dl.dirs, stacked_file) /\ ~overwrite
        THEN ManagerEnds(dl.fs, dl.dirs, "none", downloaded, stacked_file,
                         dl.requests, FALSE)
        ELSE AfterStack(StackFunc(dl.fs, dl.dirs, target_res, band_paths, stacked_file),
                        downloaded, stacked_file, dl.requests)

\* Sentinel2Manager.download_bands(item, preset, stack, overwrite, target_res)
DownloadBands(fsys, ds, item, preset, stack, overwrite, target_res, net) ==
    IF PresetCheck(preset) # "none"
    THEN ManagerEnds(fsys, ds, PresetCheck(preset), None, None, 0, FALSE)
    ELSE LET bands    == BAND_PRESETS[preset]
             tile_dir == TileDir(TileId(item))
             made     == Makedirs(fsys, ds, tile_dir)
         IN  IF made.exc # "none"
             THEN ManagerEnds(fsys, made.dirs, made.exc, None, None, 0, FALSE)
             ELSE AfterDownloads(FetchLoop(fsys, made.dirs, item, bands, tile_dir,
                                           overwrite, net, 1, 0),
                                 item, bands, tile_dir, stack, overwrite, target_res)

\* the outcome of download_multiple_tiles: calls is the number of
\* download_bands calls made, failed_at the index of the first tile whose
\* call raised (0 when none), done the paths returned for the tiles before
\* it and before the file system when that tile's call began
TilesEnd(fsys, ds, exc, calls, acc, before) ==
    [fs |-> fsys, dirs |-> ds, exc |-> exc, calls |-> calls,
     failed_at |-> acc.failed_at, done |-> acc.done, before |-> before,
     all_downloaded |-> IF exc = "none" THEN acc.downloaded ELSE None,
     all_stacked |-> IF exc = "none" THEN acc.stacked ELSE None]

\* the loop state after tile k's download_bands call ended with outcome o, in
\* a loop that goes on after an error
TileReported(acc, k, o) ==
    IF o.exc = "none" \/ acc.failed_at # 0 THEN acc ELSE [acc EXCEPT !.failed_at = k]

RECURSIVE TilesLoopGoesOn(_, _, _, _, _, _, _, _, _, _)
RECURSIVE TilesLoop(_, _, _, _, _, _, _, _, _, _)

\* the rest of a loop that reports a tile's error and goes on
GoesOnAfter(o, tiles, preset, stack, target_res, overwrite, net, k, acc) ==
    TilesLoopGoesOn(o.fs, o.dirs, tiles, preset, stack, target_res, overwrite,
                    net, k + 1, TileReported(acc, k, o))

\* a loop that reports a tile's error and goes on with the next tile
TilesLoopGoesOn(fsys, ds, tiles, preset, stack, target_res, overwrite, net, k, acc) ==
    IF k > Len(tiles) THEN TilesEnd(fsys, ds, "none", k - 1, acc, fsys)
    ELSE GoesOnAfter(DownloadBands(fsys, ds, tiles[k], preset, stack, overwrite,
                                   target_res, net[k]),
                     tiles, preset, stack, target_res, overwrite, net, k, acc)

\* the loop of download_multiple_tiles after tile k's download_bands call
\* ended with outcome o: an exception leaves the loop
AfterTile(o, before, tiles, preset, stack, target_res, overwrite, net, k, acc) ==
    IF o.exc # "none"
    THEN TilesEnd(o.fs, o.dirs, o.exc, k, [acc EXCEPT !.failed_at = k], before)
    ELSE TilesLoop(o.fs, o.dirs, tiles, preset, stack, target_res, overwrite,
                   net, k + 1,
                   [downloaded |-> (TileId(tiles[k]) :> o.downloaded) @@ acc.downloaded,
                    stacked    |-> (TileId(tiles[k]) :> o.stacked) @@ acc.stacked,
                    done       |-> acc.done
                                     \cup {o.downloaded[j].path : j \in DOMAIN o.downloaded}
                                     \cup (IF o.stacked = None THEN {} ELSE {o.stacked}),
                    failed_at  |-> 0])

\* the loop of download_multiple_tiles from tile k on
TilesLoop(fsys, ds, tiles, preset, stack, target_res, overwrite, net, k, acc) ==
    IF k > Len(tiles) THEN TilesEnd(fsys, ds, "none", k - 1, acc, fsys)
    ELSE AfterTile(DownloadBands(fsys, ds, tiles[k], preset, stack, overwrite,
                                 target_res, net[k]),
                   fsys, tiles, preset, stack, target_res, overwrite, net, k, acc)

\* Sentinel2Manager.download_multiple_tiles(tiles, preset, stack, target_res,
\* overwrite)
DownloadMultipleTiles(fsys, ds, tiles, preset, stack, target_res, overwrite, net) ==
    TilesLoop(fsys, ds, tiles, preset, stack, target_res, overwrite, net, 1,
              [downloaded |-> <<>>, stacked |-> <<>>, done |-> {}, failed_at |-> 0])

(***************************************************************************)
(* SentinelSelector and Sentinel2Manager.select_best                       *)
(***************************************************************************)
\* an item with a cloud cover, of another tile and date
I3 == [id |-> "S2A_T3_20240202",
       properties |-> ("sentinel:tile_id" :> <<"T3">>
                       @@ "datetime" :> Datetime("2024", "02", "02")
                       @@ "eo:cloud_cover" :> <<5>>),
       assets |-> DOMAIN BAND_RESOLUTIONS]

\* the outcome of a selection: the exception, and the items returned
Selected(items) == [exc |-> "none", value |-> items]

SelectRaises(exc) == [exc |-> exc, value |-> None]

\* SentinelSelector._ensure_items
EnsureItems(items) == IF items = <<>> THEN "SelectionError" ELSE "none"

\* SentinelSelector._get_date_str
GetDateStr(item) ==
    LET dt == Get(item.properties, "datetime", None)
    IN  IF dt = None THEN "unknown" ELSE dt[1] \o "-" \o dt[2] \o "-" \o dt[3]

\* SentinelSelector._get_cloud
GetCloud(item) == Get(item.properties, "eo:cloud_cover", <<100>>)[1]

\* items[index]: the position (from 1) the index names, 0 for IndexError; a
\* negative index counts from the end of the list
ItemAt(items, index) ==
    IF index >= 0 /\ index < Len(items) THEN index + 1
    ELSE IF index < 0 /\ -index <= Len(items) THEN Len(items) + index + 1
    ELSE 0

\* SentinelSelector.by_index
ByIndex(items, index) ==
    IF EnsureItems(items) # "none" THEN SelectRaises(EnsureItems(items))
    ELSE IF ItemAt(items, index) = 0 THEN SelectRaises("SelectionError")
    ELSE Selected(<<items[ItemAt(items, index)]>>)

\* SentinelSelector.least_cloudy: min keeps the first of the least cloudy
LeastCloudy(items) ==
    IF EnsureItems(items) # "none" THEN SelectRaises(EnsureItems(items))
    ELSE LET k == CHOOSE k \in 1..Len(items) :
                      /\ \A j \in 1..Len(items) : GetCloud(items[k]) <= GetCloud(items[j])
                      /\ \A j \in 1..(k - 1) : GetCloud(items[j]) > GetCloud(items[k])
         IN  Selected(<<items[k]>>)

\* the items of a list that carry the date, in order
RECURSIVE OfDate(_, _)
OfDate(items, date) ==
    IF items = <<>> THEN <<>>
    ELSE IF GetDateStr(Head(items)) = date
         THEN <<Head(items)>> \o OfDate(Tail(items), date)
         ELSE OfDate(Tail(items), date)

\* SentinelSelector.by_date: the list of matching items, which can be empty
ByDate(items, date) ==
    IF EnsureItems(items) # "none" THEN SelectRaises(EnsureItems(items))
    ELSE Selected(OfDate(items, date))

\* select_best, method by_date, after the selector returned
BestOfDate(matched) ==
    IF matched.exc # "none" THEN matched
    ELSE IF matched.value = <<>> THEN SelectRaises("ValueError")
    ELSE Selected(<<matched.value[1]>>)

\* Sentinel2Manager.select_best(items, method, **kwargs): a keyword argument
\* that is not given is None
SelectBest(items, method, kwargs) ==
    IF items = <<>> THEN SelectRaises("ValueError")
    ELSE IF method = "least_cloudy" THEN LeastCloudy(items)
    ELSE IF method = "by_index"
    THEN IF kwargs.index = None THEN SelectRaises("ValueError")
         ELSE ByIndex(items, kwargs.index[1])
    ELSE IF method = "by_date"
    THEN IF kwargs.date = None THEN SelectRaises("ValueError")
         ELSE BestOfDate(ByDate(items, kwargs.date[1]))
    ELSE SelectRaises("ValueError")

(***************************************************************************)
(* SentinelPlotter (plot/plotter.py)                                       *)
(***************************************************************************)
\* _save_figure(save_path, jpg_quality): nothing when save_path is None or
\* empty; else the figure is rendered in memory and img.save opens save_path
\* for writing, which replaces a file there and fails on a directory and
\* under a directory that does not exist
SaveFigure(fsys, ds, save_path, jpg_quality) ==
    LET parent == SubSeq(save_path, 1, Len(save_path) - 1)
    IN  IF save_path = None THEN [fs |-> fsys, exc |-> "none"]
        ELSE IF save_path \in ds THEN [fs |-> fsys, exc |-> "IsADirectoryError"]
        ELSE IF \E k \in 1..Len(parent) : IsFile(fsys, SubSeq(parent, 1, k))
        THEN [fs |-> fsys, exc |-> "NotADirectoryError"]
        ELSE IF parent # <<>> /\ parent \notin ds
        THEN [fs |-> fsys, exc |-> "FileNotFoundError"]
        ELSE [fs |-> [fsys EXCEPT ![save_path] =
                         [kind |-> "jpeg", data |-> "figure",
                          quality |-> jpg_quality]],
              exc |-> "none"]

\* plot_rgb, plot_ndvi and plot_ndwi(path, bands, save_path, jpg_quality):
\* the number of bands is checked, the bands are read from the raster at
\* path (band indices from 1), the figure is drawn and saved
Plot(fsys, ds, method, path, bands, save_path, jpg_quality) ==
    IF Len(bands) # (IF method = "plot_rgb" THEN 3 ELSE 2)
    THEN [fs |-> fsys, exc |-> "ValueError"]
    ELSE IF ~Readable(fsys, path) THEN [fs |-> fsys, exc |-> "RasterioIOError"]
    ELSE IF \E k \in 1..Len(bands) : bands[k] \notin 1..fsys[path].meta.count
    THEN [fs |-> fsys, exc |-> "IndexError"]
    ELSE SaveFigure(fsys, ds, save_path, jpg_quality)

(***************************************************************************)
(* The calls the model makes.                                              *)
(***************************************************************************)
RECURSIVE SeqsUpTo(_, _)
SeqsUpTo(S, n) ==
    IF n = 0 THEN {<<>>}
    ELSE LET shorter == SeqsUpTo(S, n - 1)
         IN  shorter \cup {Append(s, x) : s \in shorter, x \in S}

\* the lists of band paths: every list of files on disk up to MaxBands long,
\* and three lists that name the file that is not downloaded yet
PathLists == SeqsUpTo(OnDisk, MaxBands) \cup {<<PE>>, <<PA, PE>>, <<PE, PA>>}

\* the arguments of the stack_to_resolution calls: every list with the
\* resolutions 10 m and 15 m; two lists with resolutions at which float
\* arithmetic shows (11 m, which 11 pixels of 60 m make 60 pixels of, and
\* 10.0000005 m and 10.000001 m, within and at the tolerance of a 10 m band);
\* three lists with the resolutions 0 and -10, which are not positive
CustomCalls ==
    (PathLists \X {Float(10), Float(15)})
        \cup ({<<PC>>, <<PC, PA>>}
                 \X {Float(11), Decimal(100000005, 10000000),
                     Decimal(10000001, 1000000)})
        \cup ({<<PA>>, <<PC, PB>>, <<PE>>} \X {Float(0), Float(-10)})

\* the band_paths and out_file arguments of the stacker calls: every list
\* into the stacked file, and one list into the file of the working directory
StackCalls == (PathLists \X OutPaths) \cup ({<<PA, PB>>} \X BarePaths)

\* what the network does to the requests of one download_one call: once a
\* request succeeds no further request is made
NetScripts(retries) ==
    {s \in [1..retries -> {"ok", "refused", "broken"}] :
        \A i, j \in 1..retries : (i < j /\ s[i] = "ok") => s[j] = "ok"}

Targets == {TargetNone, TargetHighest, TargetNumber(10)}

\* the band files of tile T3, every band of which is downloaded
T3Paths == {Join(TileDir("T3"), b \o ".tif") : b \in DOMAIN BAND_RESOLUTIONS}

\* the paths of the file system: the band files, the files download_list and
\* download_band write into tile T1's directory, the outputs of the stacker
\* calls, the stacked files download_bands names, and the saved figures
Paths ==
    OnDisk \cup OutPaths \cup BarePaths \cup T3Paths
        \cup {PE, Join(TileDir("T1"), "B04.tif"),
              BandOutPath("T1", "B08", TileDir("T1"))}
        \cup {StackedFile(item, BAND_PRESETS[preset], target_res) :
                 item \in {I1, I2, I3}, preset \in DOMAIN BAND_PRESETS,
                 target_res \in Targets}
        \cup {<<"rgb.jpg">>, Join(TileDir("T1"), "rgb.jpg"),
              Join(TileDir("T3"), "rgb.jpg")}

\* the rasters on disk when the program starts: tile T0's 10 m bands B04 and
\* B08 on one grid (B08 with a nodata value), tile T2's 60 m band B09 on
\* another grid in another coordinate reference, and every band of tile T3
\* as download_list leaves them
Init ==
    /\ fs =
        [p \in Paths |->
            CASE p = PA -> BandFile(Meta("uint16", "None", 10, 11, "EPSG:32633",
                                         NorthUp(10, 10, 0, 100)), "T0:B04")
              [] p = PB -> BandFile(Meta("uint16", "0", 10, 11, "EPSG:32633",
                                         NorthUp(10, 10, 0, 100)), "T0:B08")
              [] p = PC -> BandFile(Meta("uint16", "None", 5, 11, "EPSG:32634",
                                         NorthUp(60, 60, 500, 900)), "T2:B09")
              [] p \in T3Paths ->
                     AssetFile(I3, CHOOSE b \in DOMAIN BAND_RESOLUTIONS :
                                       p = Join(TileDir("T3"), b \o ".tif"))
              [] OTHER  -> [kind |-> "absent"]]
    /\ dirs = {<<"data">>, <<"data", "T0">>, <<"data", "T2">>, <<"data", "T3">>}
    /\ ret = [op |-> "none"]

\* a call waits for the network: download_one inside its retry loop, called
\* by itself or by download_list, or download_band
Running ==
    /\ ret.op \in {"download_one", "download_list", "download_band"}
    /\ ret.status = "running"

\* the program is single-threaded: a call begins when none is in progress
Idle == ~Running

\* the record of a finished stacker call
StackRet(mode, band_paths, out_file, resolution, o) ==
    [op |-> "stack", mode |-> mode, paths |-> band_paths, out |-> out_file,
     resolution |-> resolution, base |-> o.base, meta |-> o.meta,
     status |-> IF o.exc = "none" THEN "returned" ELSE "raised",
     value  |-> IF o.exc = "none" THEN out_file ELSE None,
     exc |-> o.exc]

CallStackSame ==
    \E call \in StackCalls :
        /\ Idle
        /\ \E o \in {StackSameResolution(fs, dirs, call[1], call[2])} :
            /\ fs' = o.fs
            /\ dirs' = o.dirs
            /\ ret' = StackRet("native", call[1], call[2], NoRes, o)

CallStackHighest ==
    \E call \in StackCalls :
        /\ Idle
        /\ \E o \in {StackToHighestResolution(fs, dirs, call[1], call[2])} :
            /\ fs' = o.fs
            /\ dirs' = o.dirs
            /\ ret' = StackRet("highest", call[1], call[2], NoRes, o)

CallStackCustom ==
    \E call \in CustomCalls, out_file \in OutPaths \cup BarePaths :
        /\ Idle
        /\ <<call[1], out_file>> \in StackCalls
        /\ \E o \in {StackToResolution(fs, dirs, call[1], out_file, call[2])} :
            /\ fs' = o.fs
            /\ dirs' = o.dirs
            /\ ret' = StackRet("custom", call[1], out_file, call[2], o)

\* fetcher.download_one(item, band, dest_dir), and the same call with the two
\* further arguments (overwrite, verbose) that download_bands passes, up to
\* the retry loop: the call ends here when the arguments do not bind, when it
\* raises, when it skips and when the loop has no attempt to make
CallDownloadOne ==
    \E retries \in 0..MaxRetries, item \in Items, band \in {"B08", "B99"},
       extra \in {<<>>, <<FALSE, TRUE>>, <<TRUE, TRUE>>} :
        LET args == <<item, band, TileDir("T1")>> \o extra
            e    == IF Binds(args)
                    THEN EnterDownloadOne(fs, dirs, args[1], args[2], args[3])
                    ELSE FetchEnds(fs, dirs, "TypeError", None, 0, FALSE)
            o    == IF e.exc = "loop"
                    THEN FetchEnds(e.fs, e.dirs, "none", None, 0, FALSE)
                    ELSE e
        IN  /\ Idle
            /\ fs' = o.fs
            /\ dirs' = o.dirs
            /\ ret' = FetchRet(item, band, retries, TileDir("T1"), extra, <<>>,
                               IF e.exc = "loop" /\ retries >= 1 THEN "running"
                               ELSE IF o.exc = "none" THEN "returned"
                               ELSE "raised",
                               FALSE, o)

\* the download_one call in progress
Cur == IF ret.op = "download_list" THEN ret.one ELSE ret

\* the attempt in progress of that call, the network doing what to it
StepAttempt(what) ==
    Attempt(fs, Cur.retries, CHOOSE i \in Items : i.id = Cur.item, Cur.band,
            Join(Cur.dest_dir, Cur.band \o ".tif"), what, Len(Cur.net) + 1)

\* the step s of the download_one call in progress, and the rest of
\* download_list when the call was made by it and ended
Resume(s) ==
    IF ret.op = "download_list"
    THEN \E o \in {ListAfter(s.fs, dirs, ret,
                              CHOOSE i \in Items : i.id = ret.item, s.one)} :
            /\ fs' = o.fs
            /\ dirs' = o.dirs
            /\ ret' = o.ret
    ELSE /\ fs' = s.fs
         /\ dirs' = dirs
         /\ ret' = s.one

\* the request of an attempt of the download_one call in progress
\* (fetch.py:75-76): requests.get is answered, and the local file is opened
\* (fetch.py:81), or it fails; after a failure that is not the last the call
\* sleeps before the next attempt
DownloadOneRequest ==
    \E what \in {"ok", "refused"} :
        /\ Running
        /\ ret.op # "download_band"
        /\ ~Cur.streaming
        /\ \E s \in {IF what = "ok"
                    THEN [fs  |-> OpenFile(fs, Cur.item, Cur.band,
                                           Join(Cur.dest_dir, Cur.band \o ".tif")),
                          one |-> [Cur EXCEPT !.streaming = TRUE,
                                              !.requests = Len(Cur.net) + 1]]
                    ELSE [fs  |-> fs,
                          one |-> AttemptEnds(Cur, StepAttempt(what), what)]} :
               Resume(s)

\* the body of the answered request: the call waits for the network with the
\* incomplete file on disk, until the body ends or breaks
DownloadOneBody ==
    \E what \in {"ok", "broken"} :
        /\ Running
        /\ ret.op # "download_band"
        /\ Cur.streaming
        /\ \E a \in {StepAttempt(what)} :
               Resume([fs |-> a.fs, one |-> AttemptEnds(Cur, a, what)])

\* fetcher.download_list(item, bands, dest_dir), up to the first download_one
\* call that waits for the network
CallDownloadList ==
    \E retries \in 0..MaxRetries, item \in Items,
       bands \in {<<>>, <<"B04", "B08">>, <<"B08", "B99">>} :
        /\ Idle
        /\ \E o \in {ListFrom(fs, dirs, item, bands, retries, TileDir("T1"), <<>>)} :
            /\ fs' = o.fs
            /\ dirs' = o.dirs
            /\ ret' = o.ret

\* download_band(tile_id, band, out_dir), up to requests.get
CallDownloadBand ==
    \E tile_id \in {"T1"}, band \in {"B08"} :
        /\ Idle
        /\ \E made \in {Makedirs(fs, dirs, TileDir(tile_id))} :
            /\ fs' = fs
            /\ dirs' = made.dirs
            /\ ret' = BandRet(tile_id, band, TileDir(tile_id),
                              IF made.exc = "none" THEN "running" ELSE "raised",
                              FALSE, made.exc)

\* requests.get of download_band: the request fails (the exception passes
\* through), is answered with a status that is not 200 (RuntimeError), or is
\* answered and out_path is opened
DownloadBandGet ==
    \E what \in {"ok", "refused", "unreachable"} :
        /\ Running
        /\ ret.op = "download_band"
        /\ ~ret.streaming
        /\ fs' = IF what = "ok"
                 THEN OpenFile(fs, ret.tile_id, ret.band,
                               BandOutPath(ret.tile_id, ret.band, ret.out_dir))
                 ELSE fs
        /\ dirs' = dirs
        /\ ret' = BandRet(ret.tile_id, ret.band, ret.out_dir,
                          IF what = "ok" THEN "running" ELSE "raised",
                          what = "ok",
                          IF what = "ok" THEN "none"
                          ELSE IF what = "refused" THEN "RuntimeError"
                          ELSE "RequestException")

\* the body of download_band's request, written to out_path chunk by chunk:
\* to the end, or until the connection breaks, which leaves the file as far
\* as it was written
DownloadBandBody ==
    \E what \in {"ok", "broken"} :
        /\ Running
        /\ ret.op = "download_band"
        /\ ret.streaming
        /\ fs' = IF what = "ok"
                 THEN [fs EXCEPT ![BandOutPath(ret.tile_id, ret.band, ret.out_dir)] =
                          AssetFile([id |-> ret.tile_id], ret.band)]
                 ELSE fs
        /\ dirs' = dirs
        /\ ret' = BandRet(ret.tile_id, ret.band, ret.out_dir,
                          IF what = "ok" THEN "returned" ELSE "raised", FALSE,
                          IF what = "ok" THEN "none" ELSE "RequestException")

\* manager.download_bands(item, preset, stack, overwrite, target_res)
CallDownloadBands ==
    \E item \in {I1, I2, I3}, preset \in {"NIR", "NDVI", "ALL_BANDS", "BOGUS"},
       stack \in BOOLEAN, overwrite \in BOOLEAN, target_res \in Targets :
        \E net \in IF Binds(<<item, "", TileDir("T1"), overwrite, TRUE>>)
                   THEN [1..Len(Get(BAND_PRESETS, preset, <<>>)) ->
                             NetScripts(Fetcher.retries)]
                   ELSE {<<>>} :
            /\ Idle
            /\ \E o \in {DownloadBands(fs, dirs, item, preset, stack, overwrite,
                                      target_res, net)} :
                /\ fs' = o.fs
                /\ dirs' = o.dirs
                /\ ret' = [op |-> "download_bands", item |-> item.id,
                           preset |-> preset, stack |-> stack,
                           overwrite |-> overwrite, target_res |-> target_res,
                           status |-> IF o.exc = "none" THEN "returned" ELSE "raised",
                           downloaded |-> o.downloaded, stacked |-> o.stacked,
                           exc |-> o.exc, requests |-> o.requests,
                           stacker_called |-> o.stacker_called]

\* manager.download_multiple_tiles(tiles, preset, stack, target_res, overwrite)
CallDownloadMultipleTiles ==
    \E tiles \in SeqsUpTo(Items, MaxTiles), preset \in {"NIR", "NDVI", "BOGUS"}, stack \in BOOLEAN,
       overwrite \in BOOLEAN, target_res \in Targets :
        \E net \in IF Binds(<<tiles, "", TileDir("T1"), overwrite, TRUE>>)
                   THEN [1..Len(tiles) ->
                            [1..Len(Get(BAND_PRESETS, preset, <<>>)) ->
                                NetScripts(Fetcher.retries)]]
                   ELSE [1..Len(tiles) -> {<<>>}] :
            /\ Idle
            /\ \E o \in {DownloadMultipleTiles(fs, dirs, tiles, preset, stack,
                                              target_res, overwrite, net)} :
                /\ fs' = o.fs
                /\ dirs' = o.dirs
                /\ ret' = [op |-> "download_multiple_tiles",
                           tiles |-> [k \in 1..Len(tiles) |-> tiles[k].id],
                           preset |-> preset, stack |-> stack,
                           overwrite |-> overwrite, target_res |-> target_res,
                           status |-> IF o.exc = "none" THEN "returned" ELSE "raised",
                           exc |-> o.exc, calls |-> o.calls,
                           failed_at |-> o.failed_at, done |-> o.done,
                           before |-> o.before,
                           all_downloaded |-> o.all_downloaded,
                           all_stacked |-> o.all_stacked]

\* a stacker call into tile T1's stacked file, by the method that
\* download_bands chooses for target_res, of the tile's downloaded band alone
\* and of a band of tile T0 followed by it
CallStackTile ==
    \E target_res \in Targets, band_paths \in {<<PE>>, <<PA, PE>>}, out_file \in OutPaths :
        /\ Idle
        /\ \E o \in {StackFunc(fs, dirs, target_res, band_paths, out_file)} :
            /\ fs' = o.fs
            /\ dirs' = o.dirs
            /\ ret' = StackRet(IF target_res = TargetHighest THEN "highest"
                               ELSE IF IsNumber(target_res) THEN "custom"
                               ELSE "native",
                               band_paths, out_file,
                               IF IsNumber(target_res) THEN Float(target_res.num)
                               ELSE NoRes, o)

\* the lists of items a selection is made from
ItemLists == SeqsUpTo({I1, I2, I3}, MaxItems)

\* the indexes asked of by_index, from below -len(items) to above len(items)-1
Indexes == (-(MaxItems + 1))..MaxItems

\* the dates asked of by_date: two that items carry and one that none does
Dates == {"2024-01-01", "2024-02-02", "2024-03-03"}

\* the record of a finished selection
SelectRet(via, method, items, kwargs, o) ==
    [op |-> "select", via |-> via, method |-> method,
     items |-> [k \in 1..Len(items) |-> items[k].id],
     dates |-> [k \in 1..Len(items) |-> GetDateStr(items[k])],
     kwargs |-> kwargs,
     status |-> IF o.exc = "none" THEN "returned" ELSE "raised",
     exc |-> o.exc,
     value |-> [k \in 1..Len(o.value) |-> o.value[k].id]]

CallByIndex ==
    \E items \in ItemLists, index \in Indexes :
        /\ Idle
        /\ ret' = SelectRet("selector", "by_index", items,
                            [index |-> <<index>>, date |-> None], ByIndex(items, index))
        /\ UNCHANGED <<fs, dirs>>

CallLeastCloudy ==
    \E items \in ItemLists :
        /\ Idle
        /\ ret' = SelectRet("selector", "least_cloudy", items,
                            [index |-> None, date |-> None], LeastCloudy(items))
        /\ UNCHANGED <<fs, dirs>>

CallByDate ==
    \E items \in ItemLists, date \in Dates :
        /\ Idle
        /\ ret' = SelectRet("selector", "by_date", items,
                            [index |-> None, date |-> <<date>>], ByDate(items, date))
        /\ UNCHANGED <<fs, dirs>>

CallSelectBest ==
    \E items \in ItemLists, kwargs \in {[index |-> None, date |-> None]}
                     \cup {[index |-> <<i>>, date |-> None] : i \in Indexes}
                     \cup {[index |-> None, date |-> <<d>>] : d \in Dates},
       method \in {"least_cloudy", "by_index", "by_date", "newest"} :
        /\ Idle
        /\ ret' = SelectRet("manager", method, items, kwargs,
                            SelectBest(items, method, kwargs))
        /\ UNCHANGED <<fs, dirs>>

\* a stacker call, by the method that download_bands chooses for target_res,
\* of the band files of tile T3 that a preset lists, into a stacked file that
\* download_bands names for that item and preset
CallStackNamed ==
    \E preset \in {"NIR", "ALL_BANDS"}, target_res \in Targets, named \in Targets :
        /\ Idle
        /\ \E band_paths \in {[k \in 1..Len(BAND_PRESETS[preset]) |->
                                  Join(TileDir(TileId(I3)),
                                       BAND_PRESETS[preset][k] \o ".tif")]} :
            \E o \in {StackFunc(fs, dirs, target_res, band_paths,
                                 StackedFile(I3, BAND_PRESETS[preset], named))} :
                /\ fs' = o.fs
                /\ dirs' = o.dirs
                /\ ret' = StackRet(IF target_res = TargetHighest THEN "highest"
                                   ELSE IF IsNumber(target_res) THEN "custom"
                                   ELSE "native",
                                   band_paths,
                                   StackedFile(I3, BAND_PRESETS[preset], named),
                                   IF IsNumber(target_res) THEN Float(target_res.num)
                                   ELSE NoRes, o)

\* plotter.plot_rgb, plot_ndvi and plot_ndwi(path, bands=bands,
\* save_path=save_path, jpg_quality=jpg_quality)
\* the figure being saved nowhere, in the working directory, in the
\* directories of tiles T1 and T3, at a directory and under a band file
CallPlot ==
    \E method \in {"plot_rgb", "plot_ndvi", "plot_ndwi"}, path \in {PA, PE},
       bands \in {<<1, 1, 1>>, <<1, 2, 3>>, <<1, 1>>, <<4, 3>>, <<2, 4>>},
       save_path \in {None, <<"rgb.jpg">>, Join(TileDir("T1"), "rgb.jpg"),
                      Join(TileDir("T3"), "rgb.jpg"), TileDir("T3"),
                      Join(PA, "rgb.jpg")},
       jpg_quality \in {95, 60} :
        /\ Idle
        /\ \E o \in {Plot(fs, dirs, method, path, bands, save_path, jpg_quality)} :
            /\ fs' = o.fs
            /\ dirs' = dirs
            /\ ret' = [op |-> method, path |-> path, bands |-> bands,
                       save_path |-> save_path, jpg_quality |-> jpg_quality,
                       status |-> IF o.exc = "none" THEN "returned" ELSE "raised",
                       value |-> None, exc |-> o.exc]

NameNext == CallStackNamed \/ CallDownloadBands

SelectNext == CallByIndex \/ CallLeastCloudy \/ CallByDate \/ CallSelectBest

StackNext == CallStackSame \/ CallStackHighest \/ CallStackCustom

FetchNext ==
    \/ CallDownloadOne
    \/ DownloadOneRequest
    \/ DownloadOneBody
    \/ CallDownloadList
    \/ CallDownloadBand
    \/ DownloadBandGet
    \/ DownloadBandBody

TileNext ==
    \/ CallDownloadOne
    \/ DownloadOneRequest
    \/ DownloadOneBody
    \/ CallDownloadBands
    \/ CallStackTile

TilesNext ==
    \/ CallDownloadOne
    \/ DownloadOneRequest
    \/ DownloadOneBody
    \/ CallDownloadMultipleTiles

Next ==
    StackNext \/ FetchNext \/ TileNext \/ TilesNext \/ SelectNext \/ NameNext
        \/ CallPlot

Spec == Init /\ [][Next]_vars

\* the fetcher and the download function of the notebook
SpecFetch == Init /\ [][FetchNext]_vars

\* the stacker alone
SpecStack == Init /\ [][StackNext]_vars

\* the fetcher, the manager and the stacker on tile T1
SpecTile == Init /\ [][TileNext]_vars

\* the manager and the stacker on the stacked files of tile T3
SpecName == Init /\ [][NameNext]_vars

\* the selections
SpecSelect == Init /\ [][SelectNext]_vars

\* the fetcher and the manager's loop over tiles
SpecTiles == Init /\ [][TilesNext]_vars

(***************************************************************************)
(* Properties of the stacker.                                              *)
(***************************************************************************)
StackReturned == ret.op = "stack" /\ ret.status = "returned"

\* the stack the last stacker call wrote
Stacked == fs[ret.out]

\* the metadata and the pixel size of the k-th input band of the last call
InMeta(k) == fs[ret.paths[k]].meta

InRes(k) == InMeta(k).transform.a

Grid(meta) == <<meta.height, meta.width, meta.transform, meta.crs>>

\* |x - y| < 1/1000000, of the numbers the floats x and y are, without
\* rounding: |x - y| is d * 2^e
Closer(x, y) ==
    LET e  == IF x.exp < y.exp THEN x.exp ELSE y.exp
        mx == BigShl(x.man, x.exp - e)
        my == BigShl(y.man, y.exp - e)
        d  == IF x.sign # y.sign THEN BigAdd(mx, my)
              ELSE IF BigCmp(mx, my) >= 0 THEN BigSub(mx, my)
              ELSE BigSub(my, mx)
    IN  IF e >= 0 THEN d = <<>>
        ELSE BigCmp(BigMulDigit(BigMulDigit(d, 1000), 1000), BigShl(<<1>>, -e)) < 0

\* C1: a completed stacking operation, in every mode, leaves one raster at the
\* output path whose band count is the number of input paths and whose band i
\* holds the samples of the i-th input path.
C1_BandsInInputOrder ==
    StackReturned =>
        /\ Len(ret.paths) >= 1
        /\ ret.value = ret.out
        /\ Stacked.kind = "raster"
        /\ Stacked.meta.count = Len(ret.paths)
        /\ DOMAIN Stacked.bands = 1..Len(ret.paths)
        /\ \A i \in 1..Len(ret.paths) :
              Stacked.bands[i].data = fs[ret.paths[i]].bands[1].data

C1_Witness ==
    /\ StackReturned
    /\ ret.mode = "custom"
    /\ Len(ret.paths) >= 2
    /\ fs[ret.paths[1]].bands[1].data # fs[ret.paths[2]].bands[1].data

\* C2: in custom(R) mode the pixel size of the output's transform is R in both
\* axes (the y axis negated) and its origin is the reference band's origin.
C2_CustomPixelSizeIsR ==
    (StackReturned /\ ret.mode = "custom") =>
        /\ Closer(Stacked.meta.transform.a, ret.resolution)
        /\ Closer(Stacked.meta.transform.e, FloatNeg(ret.resolution))
        /\ Stacked.meta.transform.c = fs[ret.base].meta.transform.c
        /\ Stacked.meta.transform.f = fs[ret.base].meta.transform.f

\* C3: in custom(R) mode the output height and width are
\* round(reference size * reference pixel size / R).
C3_CustomSizeRounds ==
    (StackReturned /\ ret.mode = "custom") =>
        LET b == fs[ret.base].meta
        IN  /\ Stacked.meta.height =
                   FloatNearest(FloatDiv(FloatMul(Float(b.height), b.transform.a),
                                         ret.resolution))
            /\ Stacked.meta.width =
                   FloatNearest(FloatDiv(FloatMul(Float(b.width), b.transform.a),
                                         ret.resolution))

\* the float reference size * (reference pixel size / R) of the last call
Scaled(n) ==
    FloatMul(Float(n), FloatDiv(fs[ret.base].meta.transform.a, ret.resolution))

\* C3 amended: in custom(R) mode the output height and width are the integer
\* parts of the float products reference height (width) * (reference pixel
\* size / R).
C3_CustomSizeTruncates ==
    (StackReturned /\ ret.mode = "custom") =>
        /\ Stacked.meta.height = FloatInt(Scaled(fs[ret.base].meta.height))
        /\ Stacked.meta.width = FloatInt(Scaled(fs[ret.base].meta.width))

\* a custom stack whose height rounds up and truncates down, and whose width
\* is not a whole number before it is truncated
C3_Witness ==
    /\ StackReturned
    /\ ret.mode = "custom"
    /\ FloatNearest(Scaled(fs[ret.base].meta.height))
           > FloatInt(Scaled(fs[ret.base].meta.height))
    /\ Float(FloatInt(Scaled(fs[ret.base].meta.width)))
           # Scaled(fs[ret.base].meta.width)

\* a custom stack whose width is a whole number of pixels, 60, and comes out
\* one less because the float product is just below it
WholeSizeOneLess ==
    /\ StackReturned
    /\ ret.mode = "custom"
    /\ FloatDiv(FloatMul(Float(fs[ret.base].meta.width),
                         fs[ret.base].meta.transform.a), ret.resolution) = Float(60)
    /\ Stacked.meta.width = 59

\* C4: in highest mode the output's height, width, transform and coordinate
\* reference are those of an input band of minimum pixel size, so the output
\* pixel size is the minimum pixel size of the inputs.
C4_HighestTakesFinestGrid ==
    (StackReturned /\ ret.mode = "highest") =>
        \E k \in 1..Len(ret.paths) :
            /\ \A j \in 1..Len(ret.paths) : ~FloatLess(InRes(j), InRes(k))
            /\ Grid(Stacked.meta) = Grid(InMeta(k))
            /\ Stacked.meta.transform.a = InRes(k)

C4_Witness ==
    /\ StackReturned
    /\ ret.mode = "highest"
    /\ \E j \in 1..Len(ret.paths) : FloatLess(InRes(j), InRes(1))

\* C5: in highest mode the reference band is the first band, in input order,
\* of those that have the minimum pixel size, and the output's metadata is
\* that band's.
C5_HighestTieTakesFirst ==
    (StackReturned /\ ret.mode = "highest") =>
        \E k \in 1..Len(ret.paths) :
            /\ \A j \in 1..Len(ret.paths) : ~FloatLess(InRes(j), InRes(k))
            /\ \A j \in 1..(k - 1) : FloatLess(InRes(k), InRes(j))
            /\ ret.base = ret.paths[k]
            /\ Stacked.meta = [InMeta(k) EXCEPT !.count = Len(ret.paths)]

C5_Witness ==
    /\ StackReturned
    /\ ret.mode = "highest"
    /\ \E i, j \in 1..Len(ret.paths) :
          /\ i < j
          /\ InRes(i) = InRes(j)
          /\ InMeta(i) # InMeta(j)
          /\ \A k \in 1..Len(ret.paths) : ~FloatLess(InRes(k), InRes(i))

\* C6: in custom(R) mode the reference band is the first band in input order
\* whose pixel size is within 1e-6 of R, and the first band of the list when
\* there is none.
C6_CustomReference ==
    (StackReturned /\ ret.mode = "custom") =>
        LET near == {k \in 1..Len(ret.paths) : Closer(InRes(k), ret.resolution)}
        IN  /\ near = {} => ret.base = ret.paths[1]
            /\ near # {} =>
                  \E k \in near : /\ \A j \in near : k <= j
                                  /\ ret.base = ret.paths[k]
            /\ Stacked.meta.crs = fs[ret.base].meta.crs
            /\ Stacked.meta.nodata = fs[ret.base].meta.nodata

C6_Witness ==
    /\ StackReturned
    /\ ret.mode = "custom"
    /\ Len(ret.paths) >= 2
    /\ ret.resolution # InRes(2)
    /\ Closer(InRes(2), ret.resolution)
    /\ ~Closer(InRes(1), ret.resolution)
    /\ ret.base = ret.paths[2]

C6_WitnessNoMatch ==
    /\ StackReturned
    /\ ret.mode = "custom"
    /\ \A k \in 1..Len(ret.paths) : ~Closer(InRes(k), ret.resolution)
    /\ ret.base = ret.paths[1]

\* C7: native-mode stacking of bands that share one grid leaves an output
\* whose metadata is the first band's (with the band count set to the number
\* of inputs) and whose band i is the array read raw from input i.
C7_NativeIsIdentity ==
    (/\ StackReturned
     /\ ret.mode = "native"
     /\ \A i \in 1..Len(ret.paths) : Grid(InMeta(i)) = Grid(InMeta(1))) =>
        /\ Stacked.meta = [InMeta(1) EXCEPT !.count = Len(ret.paths)]
        /\ DOMAIN Stacked.bands = 1..Len(ret.paths)
        /\ \A i \in 1..Len(ret.paths) :
              /\ Stacked.bands[i] = fs[ret.paths[i]].bands[1]
              /\ Stacked.bands[i].resampling = "none"

C7_Witness ==
    /\ StackReturned
    /\ ret.mode = "native"
    /\ Len(ret.paths) >= 2
    /\ ret.paths[1] # ret.paths[2]
    /\ InMeta(1) # InMeta(2)
    /\ \A i \in 1..Len(ret.paths) : Grid(InMeta(i)) = Grid(InMeta(1))

\* C8: stacking an empty list of paths ends with ValueError (or
\* ConfigurationError) in every mode, and creates no directory and no file.
C8_EmptyListIsValueError ==
    [][(ret'.op = "stack" /\ ret'.paths = <<>> /\ ret' # ret) =>
          /\ ret'.status = "raised"
          /\ ret'.exc \in {"ValueError", "ConfigurationError"}
          /\ fs' = fs
          /\ dirs' = dirs]_vars

\* the part of C8 that the code keeps: the call raises and creates nothing
EmptyListRaisesFirst ==
    [][(ret'.op = "stack" /\ ret'.paths = <<>>) =>
          (ret'.status = "raised" /\ fs' = fs /\ dirs' = dirs)]_vars

(***************************************************************************)
(* Properties of the downloads.                                            *)
(***************************************************************************)
\* the local file of a download_one call
LocalPath(r) == Join(r.dest_dir, r.band \o ".tif")

\* the item of a call
ItemOf(r) == CHOOSE item \in {I1, I2, I3} : item.id = r.item

\* the overwrite argument of a download_one call: false when not passed
OverwriteArg(r) == r.extra # <<>> /\ r.extra[1]

\* the stacked file a download_bands call names
StackedFileOf(r) == StackedFile(ItemOf(r), BAND_PRESETS[r.preset], r.target_res)

\* the band files a download_bands call needs are all on disk
BandsOnDisk(r) ==
    \A k \in 1..Len(BAND_PRESETS[r.preset]) :
        LET p == Join(TileDir(TileId(ItemOf(r))), BAND_PRESETS[r.preset][k] \o ".tif")
        IN  p \in DOMAIN fs /\ Readable(fs, p)

\* C9: the stacker writes the output file even when it exists, and after a
\* stacker call returns the file holds exactly the stack that call wrote;
\* download_bands, when the stacked file exists, returns its path without
\* invoking the stacker if overwrite is false and invokes the stacker if
\* overwrite is true.
C9_OverwritePolicy ==
    [][/\ (ret'.op = "stack" /\ ret'.status = "returned")
            => /\ fs'[ret'.out].kind = "raster"
               /\ fs'[ret'.out].meta = ret'.meta
               /\ DOMAIN fs'[ret'.out].bands = 1..Len(ret'.paths)
               /\ \A k \in 1..Len(ret'.paths) :
                      fs'[ret'.out].bands[k].data = fs[ret'.paths[k]].bands[1].data
       /\ (/\ ret'.op = "download_bands"
           /\ ret'.preset \in DOMAIN BAND_PRESETS
           /\ ret'.stack
           /\ BandsOnDisk(ret')
           /\ StackedFileOf(ret') \in DOMAIN fs
           /\ Exists(fs, StackedFileOf(ret')))
            => IF ret'.overwrite
               THEN ret'.stacker_called
               ELSE /\ ret'.status = "returned"
                    /\ ret'.stacked = StackedFileOf(ret')
                    /\ ~ret'.stacker_called
                    /\ fs' = fs]_vars

\* the stacker's half of C9 alone: a stacker call that returns leaves in the
\* output file exactly the stack it wrote, whatever the file held before
StackerOverwrites ==
    [][(ret'.op = "stack" /\ ret'.status = "returned")
            => /\ fs'[ret'.out].kind = "raster"
               /\ fs'[ret'.out].meta = ret'.meta
               /\ DOMAIN fs'[ret'.out].bands = 1..Len(ret'.paths)
               /\ \A k \in 1..Len(ret'.paths) :
                      fs'[ret'.out].bands[k].data = fs[ret'.paths[k]].bands[1].data]_vars

\* download_bands with a known preset always ends in the TypeError of its
\* first download_one call
DownloadBandsRaises ==
    (ret.op = "download_bands" /\ ret.preset \in DOMAIN BAND_PRESETS)
        => ret.status = "raised" /\ ret.exc = "TypeError" /\ ~ret.stacker_called

\* a step that is a call of download_one, as far as its retry loop
DownloadOneCalled == Idle /\ ret'.op = "download_one"

\* C10: download_one, when the destination file exists, makes no request,
\* leaves the file unchanged and returns its path if overwrite is false, and
\* fetches the asset again if overwrite is true.
C10_DownloadIdempotent ==
    [][(/\ DownloadOneCalled
        /\ ret'.band \in ItemOf(ret').assets
        /\ Exists(fs, LocalPath(ret')))
            => IF OverwriteArg(ret')
               THEN ret'.status = "running"
               ELSE /\ ret'.requests = 0
                    /\ fs' = fs
                    /\ ret'.status = "returned"
                    /\ ret'.value = LocalPath(ret')]_vars

\* the half of C10 that the three-argument call keeps: an existing file is
\* returned without a request and without a write
ExistingFileIsSkipped ==
    [][(/\ DownloadOneCalled
        /\ ret'.extra = <<>>
        /\ ret'.band \in ItemOf(ret').assets
        /\ Exists(fs, LocalPath(ret')))
            => /\ ret'.requests = 0
               /\ ret'.skipped
               /\ fs' = fs
               /\ ret'.status = "returned"
               /\ ret'.value = LocalPath(ret')]_vars

\* the index of the first request the network answers, 0 when it answers none
RECURSIVE FirstOk(_, _)
FirstOk(net, k) ==
    IF k > Len(net) THEN 0
    ELSE IF net[k] = "ok" THEN k
    ELSE FirstOk(net, k + 1)

\* a download_one call that reached its retry loop
Attempted(r) ==
    /\ r.op = "download_one"
    /\ r.extra = <<>>
    /\ r.band \in ItemOf(r).assets
    /\ ~r.skipped

\* a call that has ended
Ended(r) == r.status # "running"

\* C11: for every configured retry count download_one makes at most retries
\* attempts, returns the local path at the first attempt that succeeds without
\* a further attempt, raises when every attempt fails, and so never ends
\* without a returned path or a raised error.
C11_RetriesBounded ==
    Attempted(ret)
        => /\ ret.requests <= ret.retries
           /\ IF FirstOk(ret.net, 1) # 0
              THEN /\ ret.status = "returned"
                   /\ ret.value = LocalPath(ret)
                   /\ ret.requests = FirstOk(ret.net, 1)
              ELSE Ended(ret) => ret.status = "raised"

\* what C11 says of a fetcher with at least one retry holds: the attempts
\* stop at the first success, and retries failures end in RuntimeError
RetriesBoundedFromOne ==
    (Attempted(ret) /\ ret.retries >= 1)
        => /\ ret.requests <= ret.retries
           /\ IF FirstOk(ret.net, 1) # 0
              THEN /\ ret.status = "returned"
                   /\ ret.value = LocalPath(ret)
                   /\ ret.requests = FirstOk(ret.net, 1)
              ELSE IF Ended(ret)
              THEN /\ ret.status = "raised"
                   /\ ret.exc = "RuntimeError"
                   /\ ret.requests = ret.retries
              ELSE Len(ret.net) < ret.retries

\* a stack_to_resolution call with a zero or negative resolution
NonPositiveCall(r) ==
    /\ r.op = "stack"
    /\ r.mode = "custom"
    /\ ~FloatLess(FloatZero, r.resolution)
    /\ r.paths # <<>>

\* C12: a custom resolution that is zero or negative is rejected as a
\* configuration error before any band is resampled and before any output
\* directory or file is created.
C12_NonPositiveResolutionRejected ==
    [][NonPositiveCall(ret')
            => /\ ret'.status = "raised"
               /\ ret'.exc \in {"ValueError", "ConfigurationError"}
               /\ fs' = fs
               /\ dirs' = dirs]_vars

\* what the code does with a non-positive resolution: it raises, but not a
\* configuration error, and writes no output file; a zero resolution raises
\* before the output directory is made
NonPositiveResolutionRaises ==
    [][NonPositiveCall(ret')
            => /\ ret'.status = "raised"
               /\ ret'.exc \in {"ZeroDivisionError", "RasterioIOError",
                                "FileNotFoundError"}
               /\ fs' = fs
               /\ (ret'.resolution = FloatZero => dirs' = dirs)]_vars

\* a download_bands call with a preset that is not in the table
UnknownPresetCall(r) == r.op = "download_bands" /\ r.preset \notin DOMAIN BAND_PRESETS

\* C13: download_bands with a preset name that is not in the preset table
\* fails at once with a configuration error (ValueError): no tile directory is
\* created, no band is fetched and no stack is written.
C13_UnknownPresetRejected ==
    [][UnknownPresetCall(ret')
            => /\ ret'.status = "raised"
               /\ ret'.exc \in {"ValueError", "ConfigurationError"}
               /\ ret'.requests = 0
               /\ ~ret'.stacker_called
               /\ dirs' = dirs
               /\ fs' = fs]_vars

\* an unknown preset was refused while the item's tile directory does not exist
C13_Witness ==
    /\ UnknownPresetCall(ret)
    /\ ret.status = "raised"
    /\ TileDir(TileId(ItemOf(ret))) \notin dirs
    /\ \A p \in Paths : ~Exists(fs, p) \/ p \in OnDisk \cup T3Paths

\* C14: when processing of tile k in download_multiple_tiles raises, the
\* error reaches the caller, no tile after k is processed, and the files
\* returned for the tiles before k are as they were when tile k began.
C14_TileErrorPropagates ==
    [][(ret'.op = "download_multiple_tiles" /\ ret'.failed_at # 0)
            => /\ ret'.status = "raised"
               /\ ret'.exc \in {"TypeError", "ValueError", "RuntimeError",
                                "RasterioIOError", "IndexError", "ZeroDivisionError"}
               /\ ret'.calls = ret'.failed_at
               /\ \A p \in ret'.done : fs'[p] = ret'.before[p]]_vars

\* a list of two tiles whose first tile raised
C14_Witness ==
    /\ ret.op = "download_multiple_tiles"
    /\ Len(ret.tiles) >= 2
    /\ ret.preset \in DOMAIN BAND_PRESETS
    /\ ret.status = "raised"
    /\ ret.failed_at = 1

\* in download_multiple_tiles it is always the first tile that raises
FirstTileRaises ==
    ret.op = "download_multiple_tiles"
        => IF ret.tiles = <<>>
           THEN ret.status = "returned" /\ ret.calls = 0
           ELSE ret.status = "raised" /\ ret.failed_at = 1 /\ ret.done = {}

\* a selection whose method and argument are given
SelectionCall(r) ==
    /\ r.op = "select"
    /\ \/ r.method = "least_cloudy"
       \/ r.method = "by_index" /\ r.kwargs.index # None
       \/ r.method = "by_date" /\ r.kwargs.date # None

\* the cases in which a selection has to fail
MustFail(r) ==
    \/ r.items = <<>>
    \/ /\ r.method = "by_index"
       /\ r.kwargs.index[1] \notin 0..(Len(r.items) - 1)
    \/ /\ r.method = "by_date"
       /\ \A k \in 1..Len(r.dates) : r.dates[k] # r.kwargs.date[1]

\* C15: a selection fails with SelectionError when the item list is empty,
\* when by_index is given an index outside 0..len(items)-1 and when a by-date
\* selection matches no item; in every other case what is selected is among
\* the given items.
C15_SelectionFails ==
    SelectionCall(ret)
        => IF MustFail(ret)
           THEN ret.status = "raised" /\ ret.exc = "SelectionError"
           ELSE /\ ret.status = "returned"
                /\ ret.value # <<>>
                /\ \A k \in 1..Len(ret.value) :
                       \E j \in 1..Len(ret.items) : ret.value[k] = ret.items[j]

\* what holds of the selector: an empty list is a SelectionError, so is an
\* index below -len(items) or above len(items)-1, and whatever is returned is
\* among the given items
SelectorFails ==
    (SelectionCall(ret) /\ ret.via = "selector")
        => /\ ret.items = <<>> => ret.status = "raised" /\ ret.exc = "SelectionError"
           /\ (/\ ret.method = "by_index"
               /\ \/ ret.kwargs.index[1] >= Len(ret.items)
                  \/ ret.kwargs.index[1] < -Len(ret.items))
                  => ret.status = "raised" /\ ret.exc = "SelectionError"
           /\ \A k \in 1..Len(ret.value) :
                  \E j \in 1..Len(ret.items) : ret.value[k] = ret.items[j]

\* the bands of a download_bands call's preset
BandsOf(r) == BAND_PRESETS[r.preset]

\* a download_bands call with a known preset on an item that holds every band
\* of it, made when every band file is on disk already, so that no fetch needs
\* the network
FetchableCall(r) ==
    /\ r.op = "download_bands"
    /\ r.preset \in DOMAIN BAND_PRESETS
    /\ \A k \in 1..Len(BandsOf(r)) : BandsOf(r)[k] \in ItemOf(r).assets
    /\ BandsOnDisk(r)

\* C16: download_bands with a known preset on an item that holds every band,
\* every fetch succeeding, returns a map with exactly one entry per preset
\* band, in preset order, holding the band's local path and its table
\* resolution; with stack false the second result is None and nothing is
\* written.
C16_DownloadedMap ==
    [][FetchableCall(ret')
            => /\ ret'.status = "returned"
               /\ Len(ret'.downloaded) = Len(BandsOf(ret'))
               /\ \A k \in 1..Len(BandsOf(ret')) :
                      /\ ret'.downloaded[k].band = BandsOf(ret')[k]
                      /\ ret'.downloaded[k].path =
                             Join(TileDir(TileId(ItemOf(ret'))), BandsOf(ret')[k] \o ".tif")
                      /\ ret'.downloaded[k].resolution =
                             Get(BAND_RESOLUTIONS, BandsOf(ret')[k], 10)
               /\ ~ret'.stack => (ret'.stacked = None /\ fs' = fs)]_vars

\* C17: a download_one call that takes the skip-because-exists path returns
\* only a file that an earlier attempt wrote completely, never the partial
\* file of a download that failed while streaming.
C17_SkipReturnsCompleteFile ==
    (ret.op = "download_one" /\ ret.skipped)
        => /\ ret.status = "returned"
           /\ fs[ret.value].kind = "raster"

\* a download that succeeds leaves a complete file, whatever the attempts
\* before it left
DownloadedIsComplete ==
    (ret.op = "download_one" /\ ret.status = "returned" /\ ret.requests >= 1)
        => fs[ret.value] = AssetFile(ItemOf(ret), ret.band)

\* a raster file every band of which was written
Complete(f) ==
    /\ f.kind = "raster"
    /\ \A k \in DOMAIN f.bands : f.bands[k] # Unwritten

\* a download_bands call, with overwrite false, for a stacked file that a
\* failed stacking left partly written, made when the band files are on disk
LeftoverCall(r) ==
    /\ r.op = "download_bands"
    /\ r.preset \in DOMAIN BAND_PRESETS
    /\ r.stack
    /\ ~r.overwrite
    /\ BandsOnDisk(r)
    /\ StackedFileOf(r) \in DOMAIN fs
    /\ Exists(fs, StackedFileOf(r))
    /\ ~Complete(fs[StackedFileOf(r)])

\* C18: every stacked path that download_bands returns names a file fully
\* written by a completed stacking, and when a stacking write failed part-way
\* a later call with overwrite false stacks again instead of returning the
\* leftover partial file.
C18_LeftoverIsRestacked ==
    [][/\ (ret'.op = "download_bands" /\ ret'.status = "returned" /\ ret'.stacked # None)
            => Complete(fs'[ret'.stacked])
       /\ LeftoverCall(ret')
            => /\ ret'.stacker_called
               /\ ret'.status = "returned"
               /\ Complete(fs'[StackedFileOf(ret')])]_vars

\* a stacking that fails at a band it cannot read leaves a file with
\* unwritten bands, and nothing removes it
LeftoverStays ==
    [][(ret'.op = "stack" /\ ret'.status = "raised" /\ Exists(fs', ret'.out)
            /\ ~Exists(fs, ret'.out))
            => ~Complete(fs'[ret'.out])]_vars

\* two download_bands calls for one item and one known preset
SameItemAndPreset(r, q) ==
    /\ r.op = "download_bands" /\ q.op = "download_bands"
    /\ r.item = q.item
    /\ r.preset = q.preset
    /\ r.preset \in DOMAIN BAND_PRESETS

\* the grid of the stack that the mode of call r writes from the band files
\* of file system fsys
ModeGrid(fsys, ds, r) ==
    Grid(StackFunc(fsys, ds, r.target_res,
                   [k \in 1..Len(BandsOf(r)) |->
                       Join(TileDir(TileId(ItemOf(r))), BandsOf(r)[k] \o ".tif")],
                   StackedFileOf(r)).meta)

\* a call that returned a stacked file with overwrite false
ReturnedStack(r) ==
    /\ r.op = "download_bands" /\ r.status = "returned"
    /\ r.stacked # None /\ ~r.overwrite

FileData(f) == IF f.kind = "raster" THEN f.bands[1].data ELSE f.data

\* C20: the band files returned for an item are that item's own downloads:
\* when two items of one tile id and different dates are processed in
\* sequence, a path returned for the second never names a file downloaded
\* for the first.
C20_OwnDownloads ==
    (ret.op = "download_one" /\ ret.status = "returned" /\ ret.value # None)
        => FileData(fs[ret.value]) = ret.item \o ":" \o ret.band

\* the two items of tile T1 share every path download_bands derives for a
\* band, and differ in the stacked file only
SameTileSharesBandPaths ==
    /\ TileId(I1) = TileId(I2)
    /\ DateStr(I1) # DateStr(I2)
    /\ TileDir(TileId(I1)) = TileDir(TileId(I2))
    /\ StackedFile(I1, BAND_PRESETS["NIR"], TargetNone)
           # StackedFile(I2, BAND_PRESETS["NIR"], TargetNone)

====
